---- MODULE Spec2Model ----
\* A model of the serverless function platform: the sandbox executors
\* (virtualization/runner.py, virtualization/gvisor_runner.py), the warm
\* container pool with its lock, replenishment threads and idle sweeper
\* (virtualization/runner.py), the metrics store (backend/metrics.py), the
\* function store and the endpoints (backend/main.py, backend/database.py)
\* and the front end's API helpers (frontend/app.py, frontend/pages/dashboard.py).
EXTENDS Integers, Sequences, FiniteSets, TLC

\* ---------------------------------------------------------------- bounds

\* Clock ticks per millisecond: time.time() is read with sub-millisecond
\* resolution and int(x * 1000) truncates it.
ClockResolution == 2
\* How many sub-millisecond ticks and how many one-second ticks the clock makes.
MaxFineTicks == 2
MaxSecondTicks == 2
\* How many times the clock jumps past the pool expiry (pool specification).
MaxExpiryTicks == 1
\* Containers the engine creates in one run of the model.
MaxContainers == 6
\* Execute requests admitted in one run of the model.
MaxRequests == 2
\* Calls of save_execution_metrics in one run of the store specification, and
\* how many times its clock jumps past an hour.
MaxRows == 3
MaxHourTicks == 1
\* Calls of save_execution_metrics in one run of the rate specification.
MaxRateRows == 6
\* Execute requests admitted in one run of the function store specification,
\* the number of saved executions from which on it starts no execution and no
\* comparison, and the largest id its functions table gives a row.
MaxApiRequests == 1
MaxApiRows == 3
MaxFunctionId == 3
\* The largest number of execution times the percentile indices are computed
\* for.
MaxWindow == 200
\* Replenishment threads that can be alive at once.
MaxReplenishers == 2
\* The largest number of iterations a compare request asks for.
MaxIterations == 2
\* How many millisecond ticks the clock makes during a compare request.
MaxCompareTicks == 5

\* ------------------------------------------------------ program constants

max_pool_size == 5
pool_expiry_seconds == 300
cache_ttl_seconds == 300
MsPerSecond == 1000
InitialFill == 2

\* Python's None in a string-valued place, and in a container-valued place.
None == "None"
NoContainer == 0

\* Clock ticks in one second, and the time a function's timeout (seconds) is.
TicksPerSecond == MsPerSecond * ClockResolution
Seconds(s) == s * TicksPerSecond
\* int(x * 1000) of a difference x of two clock readings (x in ticks).
Millis(d) == d \div ClockResolution

\* ------------------------------------------------------------ threads

Execs == {"e1", "e2", "e3"}
Repls == {"r" \o ToString(i) : i \in 1..MaxReplenishers}
Sweeper == "sweeper"
\* The threads that can be inside add_container_to_pool.
Adders == Execs \cup Repls

\* ------------------------------------------------- language registry

\* str.upper() of one lower-case letter.
UpperOf ==
    "a" :> "A" @@ "b" :> "B" @@ "c" :> "C" @@ "d" :> "D" @@ "e" :> "E" @@ "f" :> "F" @@
    "g" :> "G" @@ "h" :> "H" @@ "i" :> "I" @@ "j" :> "J" @@ "k" :> "K" @@ "l" :> "L" @@
    "m" :> "M" @@ "n" :> "N" @@ "o" :> "O" @@ "p" :> "P" @@ "q" :> "Q" @@ "r" :> "R" @@
    "s" :> "S" @@ "t" :> "T" @@ "u" :> "U" @@ "v" :> "V" @@ "w" :> "W" @@ "x" :> "X" @@
    "y" :> "Y" @@ "z" :> "Z"

\* Every string str.lower() turns into the word spelled by the lower-case
\* letters given: each letter as it is or as its capital.
RECURSIVE Spellings(_)
Spellings(letters) ==
    IF letters = <<>> THEN {""}
    ELSE { c \o rest : c \in {Head(letters), UpperOf[Head(letters)]},
                       rest \in Spellings(Tail(letters)) }

PythonSpellings == Spellings(<<"p", "y", "t", "h", "o", "n">>)
JavascriptSpellings ==
    Spellings(<<"j", "a", "v", "a", "s", "c", "r", "i", "p", "t">>)
JsSpellings == Spellings(<<"j", "s">>)

\* language.lower() == "python", and language.lower() == "javascript" or
\* language.lower() == "js".
LowerIsPython(language) == language \in PythonSpellings
LowerIsJavascript(language) ==
    language \in JavascriptSpellings \/ language \in JsSpellings

UnsupportedMessage(language) == "Unsupported language: " \o language

get_image_for_languageMutant(language) ==
    [ok |-> TRUE, image |-> "python:3.9-slim", error |-> None]
\* The image of a language, or the ValueError it raises.
get_image_for_language(language) ==
    IF LowerIsPython(language)
    THEN [ok |-> TRUE, image |-> "python:3.9-slim", error |-> None]
    ELSE IF LowerIsJavascript(language)
    THEN [ok |-> TRUE, image |-> "node:16-alpine", error |-> None]
    ELSE [ok |-> FALSE, image |-> None, error |-> UnsupportedMessage(language)]

PoolKey(language) == language \o "_pool"

\* What the interpreter exits with when the file it is given does not exist
\* (the copy into the container failed; os.system raises nothing).
MissingFileExit(language) == IF LowerIsPython(language) THEN 2 ELSE 1

\* ------------------------------------------------------------ state

VARIABLES
    now,               \* time.time(), in clock ticks
    container_pools,   \* runner.container_pools: pool_key -> bucket
    pool_lock,         \* runner.pool_lock: "free" or the thread holding it
    containers,        \* the engine's containers, by id: status and runtime
    ex,                \* the executing threads (run_in_docker / run_in_gvisor)
    adder,             \* add_container_to_pool's frame, per thread running it
    sweep,             \* the cleanup thread (clean_expired_pools)
    execution_metrics, \* the execution_metrics table
    requests,          \* execute requests admitted so far
    comparison,        \* the compare endpoint's frame (compare_runtimes)
    functions,         \* the functions table
    response,          \* the server's answer to its latest request
    frontend,          \* the front end's latest call of an API helper, and its cache
    pool_keys          \* container_pools' keys in the order the dict holds them

vars == <<now, container_pools, pool_lock, containers, ex, adder, sweep,
          execution_metrics, requests, comparison, functions, response, frontend, pool_keys>>

\* A user program, as far as the executor can observe it.
Programs ==
    { [exit_code |-> 0, terminates |-> TRUE, stdout |-> "Hello", stderr |-> ""],
      [exit_code |-> 2, terminates |-> TRUE, stdout |-> "", stderr |-> "Traceback"],
      [exit_code |-> 0, terminates |-> FALSE, stdout |-> "", stderr |-> ""] }

Timeouts == {1}
Hello == [exit_code |-> 0, terminates |-> TRUE, stdout |-> "Hello", stderr |-> ""]

\* The function records the platform is asked to execute.
HelloFunction ==
    [name |-> "hello", language |-> "python", code |-> Hello, timeout |-> 1]
RubyFunction ==
    [name |-> "rb", language |-> "ruby", code |-> Hello, timeout |-> 1]
Functions == {HelloFunction, RubyFunction}

\* database.py 13-22: a row of the functions table (without its two dates).
FunctionRow(id, func) ==
    [id |-> id, name |-> func.name, language |-> func.language,
     code |-> func.code, timeout |-> func.timeout]

\* The table as the server finds it when it starts (functions.db is kept
\* between runs): the two records, created in this order.
InitialFunctions == {FunctionRow(1, HelloFunction), FunctionRow(2, RubyFunction)}

\* The server's answer to a request: the endpoint, the name in the path, the
\* request's parameters, and the status code and the body of the answer. An
\* endpoint that is still running has not given its status code yet (0).
Answer(op, name, request, status_code, body) ==
    [op |-> op, name |-> name, request |-> request,
     status_code |-> status_code, body |-> body]
PendingAnswer(op, name, request) == Answer(op, name, request, 0, None)
\* No request has been received.
NoAnswer == PendingAnswer(None, None, None)
\* raise HTTPException(status_code=404, detail="Function not found")
NotFound(op, name, request) ==
    Answer(op, name, request, 404, [detail |-> "Function not found"])

\* The front end has called no helper.
NoCall == [helper |-> None, http |-> None, returned |-> None, cache |-> <<>>]

NoMetrics == [runtime |-> None]
NoResult == [status |-> None]

IdleExec ==
    [pc |-> "idle", function_name |-> None, language |-> None,
     code |-> [exit_code |-> 0, terminates |-> TRUE, stdout |-> "", stderr |-> ""],
     timeout |-> 0, warm |-> FALSE, runtime |-> None,
     container |-> NoContainer, from_pool |-> FALSE,
     start_time |-> 0, exec_start_time |-> 0, execution_time |-> 0,
     exit_code |-> 0, staged |-> FALSE,
     metrics |-> NoMetrics, result |-> NoResult,
     exc |-> None, failed_at |-> None, adds_left |-> 0]

\* No compare request in progress.
IdleComparison ==
    [pc |-> "idle", func |-> None, iterations |-> 0, i |-> 0,
     docker_results |-> <<>>, gvisor_results |-> <<>>, response |-> None]

\* No call of add_container_to_pool in progress on the thread.
AdderOff == [pc |-> "off", language |-> None, container |-> NoContainer]

IdleSweep == [pc |-> "sleep", current_time |-> 0, to_remove |-> <<>>,
              to_stop |-> <<>>]

Init ==
    /\ now = 0
    /\ container_pools = <<>>
    /\ pool_lock = "free"
    /\ containers = <<>>
    /\ ex = [e \in Execs |-> IdleExec]
    /\ adder = [t \in Adders |-> AdderOff]
    /\ sweep = IdleSweep
    /\ execution_metrics = <<>>
    /\ requests = 0
    /\ comparison = IdleComparison
    /\ functions = InitialFunctions
    /\ response = NoAnswer
    /\ frontend = NoCall
    /\ pool_keys = <<>>

\* ------------------------------------------------ the container engine

\* client.containers.run(image, "sleep infinity", detach=True, ...): a new
\* running container; its id is the next one.
NewContainerId == Len(containers) + 1
EngineRun(runtime) ==
    Append(containers, [status |-> "running", runtime |-> runtime, used |-> FALSE])
\* container.stop(timeout=1); stopping a stopped container changes nothing.
EngineStop(c) == [containers EXCEPT ![c].status = "stopped"]
CanCreate == Len(containers) < MaxContainers

\* The message of an exception of the engine's client.
EngineError(op) == "EngineError: " \o op

\* ------------------------------------------------ add_container_to_pool

\* The frame a thread is left with when its add_container_to_pool returns:
\* initialize_container_pool calls it InitialFill times in a row, a
\* replenishment thread ends with it.
AdderReturn(t) ==
    IF t \in Execs /\ ex[t].adds_left > 1
    THEN [pc |-> "create", language |-> adder[t].language, container |-> NoContainer]
    ELSE AdderOff

ExAfterAdd(t) ==
    IF t \in Execs
    THEN [ex EXCEPT ![t].adds_left = @ - 1,
                    ![t].pc = IF ex[t].adds_left > 1 THEN "filling" ELSE "create"]
    ELSE ex

\* runner.py 49: docker.from_env() raises. The call is outside the try block,
\* so the exception leaves add_container_to_pool: on an executing thread it
\* leaves initialize_container_pool as well and reaches the runner's handler
\* (no further add is made); a replenishment thread ends with it.
AddFromEnvRaises(t) ==
    /\ adder[t].pc = "create"
    /\ adder' = [adder EXCEPT ![t] = AdderOff]
    /\ ex' = IF t \in Execs
             THEN [ex EXCEPT ![t].pc = "except",
                             ![t].exc = EngineError("from_env"),
                             ![t].failed_at = "add_from_env",
                             ![t].adds_left = 0]
             ELSE ex
    /\ UNCHANGED <<now, container_pools, pool_lock, containers, sweep, execution_metrics, requests, comparison, functions, response, frontend, pool_keys>>

\* runner.py 51-61: the engine creates the container, or the call raises and
\* the exception is logged (77-78).
AddCreate(t, created) ==
    /\ adder[t].pc = "create"
    /\ IF created
       THEN /\ CanCreate
            /\ containers' = EngineRun("default")
            /\ adder' = [adder EXCEPT ![t].pc = "insert",
                                      ![t].container = NewContainerId]
            /\ UNCHANGED ex
       ELSE /\ adder' = [adder EXCEPT ![t] = AdderReturn(t)]
            /\ ex' = ExAfterAdd(t)
            /\ UNCHANGED containers
    /\ UNCHANGED <<now, container_pools, pool_lock, sweep, execution_metrics, requests, comparison, functions, response, frontend, pool_keys>>

PoolHasRoomMutant(bucket) == Len(bucket.containers) <= max_pool_size
\* runner.py 66
PoolHasRoom(bucket) == Len(bucket.containers) < max_pool_size

\* runner.py 67-71: the entry, with the clock reading it is created at.
PoolAppend(pools, pool_key, c, t) ==
    [pools EXCEPT ![pool_key].containers =
        Append(@, [container |-> c, created_at |-> t, id |-> c])]

\* runner.py 72, 89: the bucket is marked accessed at a clock reading.
PoolAccessed(pools, pool_key, t) ==
    [pools EXCEPT ![pool_key].last_accessed = t]

\* runner.py 63-71 and 74: the thread takes the lock. If the bucket exists and
\* has room the container goes into it, created at the clock's reading, and
\* the thread goes on to mark the bucket accessed; if the bucket is full the
\* thread goes on to stop the container; both with the lock held. If the
\* bucket does not exist the container is left as it is and the lock is
\* released.
AddInsert(t) ==
    /\ adder[t].pc = "insert"
    /\ pool_lock = "free"
    /\ LET pool_key == PoolKey(adder[t].language) IN
       IF pool_key \notin DOMAIN container_pools
       THEN /\ adder' = [adder EXCEPT ![t] = AdderReturn(t)]
            /\ ex' = ExAfterAdd(t)
            /\ UNCHANGED <<container_pools, pool_lock>>
       ELSE IF PoolHasRoom(container_pools[pool_key])
       THEN /\ pool_lock' = t
            /\ container_pools' =
                  PoolAppend(container_pools, pool_key, adder[t].container, now)
            /\ adder' = [adder EXCEPT ![t].pc = "accessed"]
            /\ UNCHANGED ex
       ELSE /\ pool_lock' = t
            /\ adder' = [adder EXCEPT ![t].pc = "stop"]
            /\ UNCHANGED <<container_pools, ex>>
    /\ UNCHANGED <<now, containers, sweep, execution_metrics, requests, comparison, functions, response, frontend, pool_keys>>

\* runner.py 72-73: the clock is read a second time for the bucket's
\* last_accessed, and leaving the with block frees the lock.
AddAccessed(t) ==
    /\ adder[t].pc = "accessed"
    /\ pool_lock = t
    /\ container_pools' =
          PoolAccessed(container_pools, PoolKey(adder[t].language), now)
    /\ pool_lock' = "free"
    /\ adder' = [adder EXCEPT ![t] = AdderReturn(t)]
    /\ ex' = ExAfterAdd(t)
    /\ UNCHANGED <<now, containers, sweep, execution_metrics, requests, comparison, functions, response, frontend, pool_keys>>

\* runner.py 74-78: the bucket is full; container.stop runs with the lock held,
\* and stops the container or raises (logged); leaving the with block frees
\* the lock either way.
AddStop(t, stopped) ==
    /\ adder[t].pc = "stop"
    /\ pool_lock = t
    /\ containers' = IF stopped THEN EngineStop(adder[t].container) ELSE containers
    /\ pool_lock' = "free"
    /\ adder' = [adder EXCEPT ![t] = AdderReturn(t)]
    /\ ex' = ExAfterAdd(t)
    /\ UNCHANGED <<now, container_pools, sweep, execution_metrics, requests, comparison, functions, response, frontend, pool_keys>>

\* ---------------------------------------------- clean_expired_pools

Expired(current_time, pool_data) ==
    current_time - pool_data.last_accessed > Seconds(pool_expiry_seconds)

\* runner.py 103-115: the keys of S in the order container_pools.items()
\* gives them, the order in which the dict was given its keys.
RECURSIVE KeysInOrder(_, _)
KeysInOrder(keys, S) ==
    IF keys = <<>> THEN <<>>
    ELSE (IF Head(keys) \in S THEN <<Head(keys)>> ELSE <<>>)
         \o KeysInOrder(Tail(keys), S)

RECURSIVE ContainersOf(_, _)
ContainersOf(pools, keys) ==
    IF keys = <<>> THEN <<>>
    ELSE [i \in 1..Len(pools[Head(keys)].containers) |->
              pools[Head(keys)].containers[i].container]
         \o ContainersOf(pools, Tail(keys))

\* runner.py 99: the cleanup thread wakes up and reads the clock.
SweepStart ==
    /\ sweep.pc = "sleep"
    /\ sweep' = [sweep EXCEPT !.pc = "lock", !.current_time = now]
    /\ UNCHANGED <<now, container_pools, pool_lock, containers, ex, adder,
                   execution_metrics, requests, comparison, functions, response, frontend, pool_keys>>

\* runner.py 101-106: it takes the lock and finds the expired pools.
SweepLock ==
    /\ sweep.pc = "lock"
    /\ pool_lock = "free"
    /\ pool_lock' = Sweeper
    /\ LET expired == {k \in DOMAIN container_pools :
                          Expired(sweep.current_time, container_pools[k])}
           keys == KeysInOrder(pool_keys, expired)
       IN sweep' = [sweep EXCEPT !.pc = "stop", !.to_remove = keys,
                                 !.to_stop = ContainersOf(container_pools, keys)]
    /\ UNCHANGED <<now, container_pools, containers, ex, adder,
                   execution_metrics, requests, comparison, functions, response, frontend, pool_keys>>

\* runner.py 108-113: one container.stop, with the lock held; a failure is
\* logged.
SweepStop(stopped) ==
    /\ sweep.pc = "stop"
    /\ sweep.to_stop # <<>>
    /\ containers' = IF stopped THEN EngineStop(Head(sweep.to_stop)) ELSE containers
    /\ sweep' = [sweep EXCEPT !.to_stop = Tail(@)]
    /\ UNCHANGED <<now, container_pools, pool_lock, ex, adder,
                   execution_metrics, requests, comparison, functions, response, frontend, pool_keys>>

SweepRemoveMutant ==
    /\ sweep.pc = "stop"
    /\ sweep.to_stop = <<>>
    /\ LET gone == {sweep.to_remove[i] : i \in 1..Len(sweep.to_remove)} IN
       container_pools' = [k \in (DOMAIN container_pools) \ gone |-> container_pools[k]]
    /\ pool_keys' = KeysInOrder(pool_keys, DOMAIN container_pools')
    /\ sweep' = IdleSweep
    /\ UNCHANGED <<now, pool_lock, containers, ex, adder, execution_metrics, requests, comparison, functions, response, frontend>>
\* runner.py 117-120: the expired pools are deleted and the lock is released.
SweepRemove ==
    /\ sweep.pc = "stop"
    /\ sweep.to_stop = <<>>
    /\ LET gone == {sweep.to_remove[i] : i \in 1..Len(sweep.to_remove)} IN
       container_pools' = [k \in (DOMAIN container_pools) \ gone |-> container_pools[k]]
    /\ pool_lock' = "free"
    /\ pool_keys' = KeysInOrder(pool_keys, DOMAIN container_pools')
    /\ sweep' = IdleSweep
    /\ UNCHANGED <<now, containers, ex, adder, execution_metrics, requests, comparison, functions, response, frontend>>


\* ------------------------------------------- get_container_from_pool

FreeRepls == {r \in Repls : adder[r].pc = "off"}

StartThreadMutant(language) == adder
StartThreadOtherMutant(language) ==
    LET r == CHOOSE x \in {y \in Repls : adder[y].pc = "off"} : TRUE IN
    [adder EXCEPT ![r] = [pc |-> "create", language |-> "javascript",
                          container |-> NoContainer]]
\* threading.Thread(target=add_container_to_pool, ...).start(): a new thread
\* (the model gives it a thread name that is not in use, of the
\* MaxReplenishers names it has).
StartThread(language) ==
    LET r == CHOOSE x \in FreeRepls : TRUE IN
    [adder EXCEPT ![r] = [pc |-> "create", language |-> language,
                          container |-> NoContainer]]

\* runner.py 85
PoolMiss(pools, pool_key) ==
    pool_key \notin DOMAIN pools \/ pools[pool_key].containers = <<>>

PoolFirstMutant(pools, pool_key) ==
    pools[pool_key].containers[Len(pools[pool_key].containers)]
\* runner.py 88: containers.pop(0) gives the first entry of the idle list.
PoolFirst(pools, pool_key) == Head(pools[pool_key].containers)

PoolPopMutant(pools, pool_key, t) ==
    PoolAccessed(pools, pool_key, t)
\* runner.py 88-89
PoolPop(pools, pool_key, t) ==
    PoolAccessed([pools EXCEPT ![pool_key].containers = Tail(@)], pool_key, t)

\* --------------------------------------- run_in_docker, run_in_gvisor

\* runner.py 142-151
docker_metrics(start_time, language, warm) ==
    [start_time |-> start_time, runtime |-> "docker", language |-> language,
     execution_time_ms |-> 0, initialization_time_ms |-> 0, total_time_ms |-> 0,
     warm_start |-> warm, error |-> None]

\* gvisor_runner.py 32-40
gvisor_metrics(start_time, language) ==
    [start_time |-> start_time, runtime |-> "gvisor", language |-> language,
     execution_time_ms |-> 0, initialization_time_ms |-> 0, total_time_ms |-> 0,
     error |-> None]

TimeoutMessage(timeout) ==
    "Function execution timed out after " \o ToString(timeout) \o " seconds"

TimedOutMutant(execution_time, timeout) == FALSE
\* runner.py 244, gvisor_runner.py 122: execution_time > timeout
TimedOut(execution_time, timeout) == execution_time > Seconds(timeout)

ClassifyResultMutant(execution_time, timeout, exit_code, stdout, stderr) ==
    IF TimedOut(execution_time, timeout)
    THEN [status |-> "timeout", stdout |-> stdout,
          stderr |-> TimeoutMessage(timeout), exit_code |-> exit_code]
    ELSE [status |-> IF exit_code = 0 THEN "success" ELSE "error",
          stdout |-> stdout, stderr |-> stderr, exit_code |-> exit_code]
\* runner.py 244-258, gvisor_runner.py 122-136: the result, before its metrics
\* are attached.
ClassifyResult(execution_time, timeout, exit_code, stdout, stderr) ==
    IF TimedOut(execution_time, timeout)
    THEN [status |-> "timeout", stdout |-> stdout,
          stderr |-> TimeoutMessage(timeout), exit_code |-> -1]
    ELSE [status |-> IF exit_code = 0 THEN "success" ELSE "error",
          stdout |-> stdout, stderr |-> stderr, exit_code |-> exit_code]

\* runner.py 251, 259-260, gvisor_runner.py 129, 137-138: metrics['error']
ClassifyError(execution_time, timeout, exit_code) ==
    IF TimedOut(execution_time, timeout) THEN "timeout"
    ELSE IF exit_code # 0 THEN "exit_code_" \o ToString(exit_code)
    ELSE None

ExceptionResultMutant(exc, metrics) ==
    [status |-> "error", stdout |-> "",
     stderr |-> "Error executing function: " \o exc,
     exit_code |-> 1, metrics |-> metrics]
\* runner.py 294-300, gvisor_runner.py 156-162
ExceptionResult(exc, metrics) ==
    [status |-> "error", stdout |-> "",
     stderr |-> "Error executing function: " \o exc,
     exit_code |-> -1, metrics |-> metrics]

\* runner.py 267: warm and not warm or warm and execution_time < timeout and
\* exit_code == 0
KeepsContainer(warm, execution_time, timeout, exit_code) ==
    (warm /\ ~warm) \/ (warm /\ execution_time < Seconds(timeout) /\ exit_code = 0)

\* An exception raised inside the try block: control goes to the handler.
Raise(e, op, message) ==
    [ex EXCEPT ![e].pc = "except", ![e].exc = message, ![e].failed_at = op]

\* runner.py 137-155: the runner reads the clock and makes its engine client,
\* which raises, outside the try block, when the engine cannot be reached.
run_in_docker_frame(function_name, code, language, timeout, warm, engine_up) ==
    [IdleExec EXCEPT
       !.pc = IF ~engine_up THEN "raised" ELSE IF warm THEN "acquire" ELSE "create",
       !.function_name = function_name,
       !.language = language,
       !.code = code,
       !.timeout = timeout,
       !.warm = warm,
       !.runtime = "docker",
       !.start_time = now,
       !.exc = IF engine_up THEN None ELSE EngineError("from_env"),
       !.failed_at = IF engine_up THEN None ELSE "from_env",
       !.metrics = docker_metrics(now, language, warm)]

run_in_gvisor_frameMutant(function_name, code, language, timeout, engine_up) ==
    [IdleExec EXCEPT
       !.pc = IF ~engine_up THEN "raised" ELSE "acquire",
       !.function_name = function_name,
       !.language = language,
       !.code = code,
       !.timeout = timeout,
       !.warm = FALSE,
       !.runtime = "gvisor",
       !.start_time = now,
       !.exc = IF engine_up THEN None ELSE EngineError("from_env"),
       !.failed_at = IF engine_up THEN None ELSE "from_env",
       !.metrics = gvisor_metrics(now, language)]
\* gvisor_runner.py 28-42
run_in_gvisor_frame(function_name, code, language, timeout, engine_up) ==
    [IdleExec EXCEPT
       !.pc = IF ~engine_up THEN "raised" ELSE "create",
       !.function_name = function_name,
       !.language = language,
       !.code = code,
       !.timeout = timeout,
       !.warm = FALSE,
       !.runtime = "gvisor",
       !.start_time = now,
       !.exc = IF engine_up THEN None ELSE EngineError("from_env"),
       !.failed_at = IF engine_up THEN None ELSE "from_env",
       !.metrics = gvisor_metrics(now, language)]

\* A call of run_in_docker(code, language, timeout, warm) on thread e.
run_in_docker(e, code, language, timeout, warm, engine_up) ==
    /\ ex[e].pc = "idle"
    /\ ex' = [ex EXCEPT ![e] =
                run_in_docker_frame(None, code, language, timeout, warm, engine_up)]
    /\ UNCHANGED <<now, container_pools, pool_lock, containers, adder, sweep,
                   execution_metrics, requests, comparison, functions, response, frontend, pool_keys>>

\* A call of run_in_gvisor(code, language, timeout) on thread e.
run_in_gvisor(e, code, language, timeout, engine_up) ==
    /\ ex[e].pc = "idle"
    /\ ex' = [ex EXCEPT ![e] =
                run_in_gvisor_frame(None, code, language, timeout, engine_up)]
    /\ UNCHANGED <<now, container_pools, pool_lock, containers, adder, sweep,
                   execution_metrics, requests, comparison, functions, response, frontend, pool_keys>>

\* main.py 85-109: the execute endpoint calls the runner of the request's
\* runtime (gvisor, or else docker) with the function's record.
execute_function(e, func, runtime, warm_start, engine_up) ==
    /\ ex[e].pc = "idle"
    /\ requests' = requests + 1
    /\ ex' = [ex EXCEPT ![e] =
          IF runtime = "gvisor"
          THEN run_in_gvisor_frame(func.name, func.code, func.language,
                                   func.timeout, engine_up)
          ELSE run_in_docker_frame(func.name, func.code, func.language,
                                   func.timeout, warm_start, engine_up)]
    /\ response' = PendingAnswer("execute", func.name,
                                 [runtime |-> runtime, warm_start |-> warm_start])
    /\ UNCHANGED <<now, container_pools, pool_lock, containers, adder, sweep,
                   execution_metrics, comparison, functions, frontend, pool_keys>>

\* runner.py 157, 80-95: get_container_from_pool under the lock. A miss
\* returns None. A hit takes the first idle container, marks the bucket
\* accessed at the clock's reading and starts a replenishment thread.
GetContainerFromPool(e) ==
    /\ ex[e].pc = "acquire"
    /\ pool_lock = "free"
    /\ LET pool_key == PoolKey(ex[e].language) IN
       IF PoolMiss(container_pools, pool_key)
       THEN /\ ex' = [ex EXCEPT ![e].pc = "init_pool"]
            /\ UNCHANGED <<container_pools, adder>>
       ELSE /\ FreeRepls # {}
            /\ container_pools' = PoolPop(container_pools, pool_key, now)
            /\ adder' = StartThread(ex[e].language)
            /\ ex' = [ex EXCEPT
                 ![e].pc = "init_end",
                 ![e].container = PoolFirst(container_pools, pool_key).container,
                 ![e].from_pool = TRUE]
    /\ UNCHANGED <<now, pool_lock, containers, sweep, execution_metrics, requests, comparison, functions, response, frontend, pool_keys>>

\* runner.py 187-188: with the pool's container in hand and the lock released,
\* the executor reads the clock and records its initialization time.
InitEnd(e) ==
    /\ ex[e].pc = "init_end"
    /\ ex' = [ex EXCEPT
         ![e].pc = "stage",
         ![e].metrics.initialization_time_ms = Millis(now - ex[e].start_time)]
    /\ UNCHANGED <<now, container_pools, pool_lock, containers, adder, sweep,
                   execution_metrics, requests, comparison, functions, response, frontend, pool_keys>>

\* runner.py 160, 30-44: initialize_container_pool: the image (a ValueError for
\* an unsupported language), then under the lock the bucket if there is none,
\* then the first of the InitialFill calls of add_container_to_pool, made on
\* this thread.
InitializeContainerPool(e) ==
    /\ ex[e].pc = "init_pool"
    /\ LET image == get_image_for_language(ex[e].language)
           pool_key == PoolKey(ex[e].language)
       IN IF ~image.ok
          THEN /\ ex' = Raise(e, "image", image.error)
               /\ UNCHANGED <<container_pools, adder, pool_keys>>
          ELSE /\ pool_lock = "free"
               /\ container_pools' =
                     IF pool_key \in DOMAIN container_pools THEN container_pools
                     ELSE container_pools @@
                          (pool_key :> [containers |-> <<>>, last_accessed |-> now])
               /\ pool_keys' =
                     IF pool_key \in DOMAIN container_pools THEN pool_keys
                     ELSE Append(pool_keys, pool_key)
               /\ ex' = [ex EXCEPT ![e].pc = "filling", ![e].adds_left = InitialFill]
               /\ adder' = [adder EXCEPT ![e] =
                     [pc |-> "create", language |-> ex[e].language,
                      container |-> NoContainer]]
    /\ UNCHANGED <<now, pool_lock, containers, sweep, execution_metrics, requests, comparison, functions, response, frontend>>

\* runner.py 163-172 and 175-184, gvisor_runner.py 44-56, then 187-188 and
\* 59-60: the image (a ValueError for an unsupported language), a new container
\* on the calling thread (runtime runsc for gvisor), and the initialization
\* time; the engine call may raise.
CreateContainer(e, created) ==
    /\ ex[e].pc = "create"
    /\ LET image == get_image_for_language(ex[e].language) IN
       IF ~image.ok
       THEN /\ ex' = Raise(e, "image", image.error)
            /\ UNCHANGED containers
       ELSE IF created
       THEN /\ CanCreate
            /\ containers' =
                  EngineRun(IF ex[e].runtime = "gvisor" THEN "runsc" ELSE "default")
            /\ ex' = [ex EXCEPT
                 ![e].pc = "stage",
                 ![e].container = NewContainerId,
                 ![e].metrics.initialization_time_ms =
                     Millis(now - ex[e].start_time)]
       ELSE /\ ex' = Raise(e, "create", EngineError("create"))
            /\ UNCHANGED containers
    /\ UNCHANGED <<now, container_pools, pool_lock, adder, sweep,
                   execution_metrics, requests, comparison, functions, response, frontend, pool_keys>>

\* runner.py 191-221, gvisor_runner.py 63-99: the code is written to a local
\* file (open or write may raise), copied into the container with os.system
\* (which raises nothing: a failed copy goes unnoticed) and the exec clock is
\* started.
StageCode(e, written, copied) ==
    /\ ex[e].pc = "stage"
    /\ ex' = IF written
             THEN [ex EXCEPT
                     ![e].pc = "exec",
                     ![e].staged =
                         copied /\ containers[ex[e].container].status = "running",
                     ![e].exec_start_time = now]
             ELSE Raise(e, "write", "OSError: write failed")
    /\ UNCHANGED <<now, container_pools, pool_lock, containers, adder, sweep,
                   execution_metrics, requests, comparison, functions, response, frontend, pool_keys>>

\* What exec_run gives back once the command has ended: the program's exit
\* code and output, or the interpreter's complaint about a missing file.
ExecOutcome(language, code, staged) ==
    IF staged
    THEN [exit_code |-> code.exit_code, stdout |-> code.stdout, stderr |-> code.stderr]
    ELSE [exit_code |-> MissingFileExit(language), stdout |-> "",
          stderr |-> "can't open file"]

\* container.exec_run has no timeout: it returns when the command has ended,
\* and not before.
ExecCanReturn(e) ==
    /\ containers[ex[e].container].status = "running"
    /\ (ex[e].staged => ex[e].code.terminates)

\* runner.py 222-260, gvisor_runner.py 100-138: exec_run returns, or raises;
\* the clock is read for the execution time and the result is classified.
ExecReturn(e, returned) ==
    /\ ex[e].pc = "exec"
    /\ IF returned
       THEN /\ ExecCanReturn(e)
            /\ LET out == ExecOutcome(ex[e].language, ex[e].code, ex[e].staged)
                   execution_time == now - ex[e].exec_start_time
               IN ex' = [ex EXCEPT
                    ![e].pc = "end_time",
                    ![e].exit_code = out.exit_code,
                    ![e].execution_time = execution_time,
                    ![e].result = ClassifyResult(execution_time, ex[e].timeout,
                                                 out.exit_code, out.stdout, out.stderr),
                    ![e].metrics.execution_time_ms = Millis(execution_time),
                    ![e].metrics.error =
                        ClassifyError(execution_time, ex[e].timeout, out.exit_code)]
            /\ containers' = [containers EXCEPT ![ex[e].container].used = TRUE]
       ELSE /\ ex' = Raise(e, "exec", EngineError("exec"))
            /\ UNCHANGED containers
    /\ UNCHANGED <<now, container_pools, pool_lock, adder, sweep,
                   execution_metrics, requests, comparison, functions, response, frontend, pool_keys>>

\* runner.py 262-264, gvisor_runner.py 140-142: the clock is read again, for
\* the total time.
EndTime(e) ==
    /\ ex[e].pc = "end_time"
    /\ ex' = [ex EXCEPT
         ![e].pc = "teardown",
         ![e].metrics.total_time_ms = Millis(now - ex[e].start_time)]
    /\ UNCHANGED <<now, container_pools, pool_lock, containers, adder, sweep,
                   execution_metrics, requests, comparison, functions, response, frontend, pool_keys>>

\* runner.py 266-280: a warm run that succeeded within the timeout only has
\* its file removed (exec_run) and its container is left running; any other
\* run has its container stopped. gvisor_runner.py 144-149: the container is
\* stopped. Either engine call may raise.
Teardown(e, done) ==
    /\ ex[e].pc = "teardown"
    /\ LET keep == /\ ex[e].runtime = "docker"
                   /\ KeepsContainer(ex[e].warm, ex[e].execution_time,
                                     ex[e].timeout, ex[e].exit_code)
       IN IF done
          THEN /\ containers' =
                    IF keep THEN containers ELSE EngineStop(ex[e].container)
               /\ ex' = [ex EXCEPT
                    ![e].pc = "returned",
                    ![e].result = [status |-> @.status, stdout |-> @.stdout,
                                   stderr |-> @.stderr, exit_code |-> @.exit_code,
                                   metrics |-> ex[e].metrics]]
          ELSE /\ ex' = IF keep THEN Raise(e, "rm", EngineError("exec"))
                        ELSE Raise(e, "stop", EngineError("stop"))
               /\ UNCHANGED containers
    /\ UNCHANGED <<now, container_pools, pool_lock, adder, sweep,
                   execution_metrics, requests, comparison, functions, response, frontend, pool_keys>>

\* runner.py 284: if container and not warm
HandlerStops(runtime, container, warm) ==
    runtime = "docker" /\ container # NoContainer /\ ~warm

HandlerMetricsMutant(metrics, start_time, t, exc) ==
    [metrics EXCEPT !.error = exc]
\* runner.py 290-292, gvisor_runner.py 152-154: the handler's metrics, the
\* total time read at clock reading t.
HandlerMetrics(metrics, start_time, t, exc) ==
    [metrics EXCEPT !.total_time_ms = Millis(t - start_time), !.error = exc]

\* runner.py 282-300, gvisor_runner.py 151-162: the handler. run_in_docker
\* stops the container of a cold run, ignoring a failure of the stop;
\* run_in_gvisor stops nothing. The total time and the error are recorded and
\* an error result is returned.
ExceptionHandler(e, stopped) ==
    /\ ex[e].pc = "except"
    /\ containers' =
          IF HandlerStops(ex[e].runtime, ex[e].container, ex[e].warm) /\ stopped
          THEN EngineStop(ex[e].container) ELSE containers
    /\ LET metrics == HandlerMetrics(ex[e].metrics, ex[e].start_time, now,
                                     ex[e].exc)
       IN ex' = [ex EXCEPT ![e].pc = "returned",
                           ![e].metrics = metrics,
                           ![e].result = ExceptionResult(ex[e].exc, metrics)]
    /\ UNCHANGED <<now, container_pools, pool_lock, adder, sweep,
                   execution_metrics, requests, comparison, functions, response, frontend, pool_keys>>

\* ------------------------------------------------ save_execution_metrics

\* dict.get(key, default)
Get(d, key, default) == IF key \in DOMAIN d THEN d[key] ELSE default

\* metrics.py 39-49
MetricRow(id, timestamp, function_name, result) ==
    LET metrics == result.metrics IN
    [id |-> id,
     function_name |-> function_name,
     runtime |-> Get(metrics, "runtime", "docker"),
     language |-> Get(metrics, "language", "unknown"),
     cold_start |-> Get(metrics, "cold_start", TRUE),
     timestamp |-> timestamp,
     initialization_time_ms |-> Get(metrics, "initialization_time_ms", 0),
     execution_time_ms |-> Get(metrics, "execution_time_ms", 0),
     total_time_ms |-> Get(metrics, "total_time_ms", 0),
     status |-> Get(result, "status", "unknown"),
     error_message |-> Get(metrics, "error", None)]

save_execution_metricsMutant(rows, timestamp, function_name, result) ==
    Append(rows, MetricRow(Len(rows) + 1, timestamp, function_name,
                           IF "metrics" \in DOMAIN result THEN result
                           ELSE [metrics |-> <<>>]))
save_execution_metricsStatusMutant(rows, timestamp, function_name, result) ==
    IF "metrics" \notin DOMAIN result THEN rows
    ELSE Append(rows, [MetricRow(Len(rows) + 1, timestamp, function_name, result)
                          EXCEPT !.status = Get(result.metrics, "status", "unknown")])
\* metrics.py 31-53
save_execution_metrics(rows, timestamp, function_name, result) ==
    IF "metrics" \notin DOMAIN result THEN rows
    ELSE Append(rows, MetricRow(Len(rows) + 1, timestamp, function_name, result))

\* The runner on the server's thread was called by the execute endpoint (and
\* not by a comparison).
CalledByExecute == comparison.pc \notin {"docker", "gvisor"}

\* main.py 111-120: the result is saved and the response is returned.
SaveAndRespond(e) ==
    /\ ex[e].pc = "returned"
    /\ CalledByExecute
    /\ execution_metrics' =
          save_execution_metrics(execution_metrics, now, ex[e].function_name,
                                 ex[e].result)
    /\ response' =
          Answer("execute", response.name, response.request, 200,
                 [function_name |-> response.name,
                  language |-> ex[e].language,
                  runtime |-> response.request.runtime,
                  result |-> ex[e].result])
    /\ ex' = [ex EXCEPT ![e] = IdleExec]
    /\ UNCHANGED <<now, container_pools, pool_lock, containers, adder, sweep,
                   requests, comparison, functions, frontend, pool_keys>>

\* main.py 122-124: an exception that left the runner becomes a 500 response;
\* nothing is saved.
RespondError(e) ==
    /\ ex[e].pc = "raised"
    /\ CalledByExecute
    /\ response' =
          Answer("execute", response.name, response.request, 500,
                 [detail |-> "Execution error: " \o ex[e].exc])
    /\ ex' = [ex EXCEPT ![e] = IdleExec]
    /\ UNCHANGED <<now, container_pools, pool_lock, containers, adder, sweep,
                   execution_metrics, requests, comparison, functions, frontend, pool_keys>>

\* ------------------------------------------------------------- the clock

\* Time passes.
Tick(d) ==
    /\ now' = now + d
    /\ UNCHANGED <<container_pools, pool_lock, containers, ex, adder, sweep,
                   execution_metrics, requests, comparison, functions, response, frontend, pool_keys>>

\* ------------------------------------------------- the specifications

Runtimes == {"docker", "gvisor"}

\* A jump of the clock past the pool expiry.
ExpiryTick == Seconds(pool_expiry_seconds + 1)
CoarseClock == {n * ExpiryTick : n \in 0..MaxExpiryTicks}

\* The cleanup thread, with an engine that does what it is asked.
SweepStep ==
    \/ SweepStart
    \/ SweepLock
    \/ SweepStop(TRUE)
    \/ SweepRemove

\* The platform as the server runs it: the endpoint calls the runner on the
\* event loop's thread, so one request executes at a time; the replenishment
\* threads and the cleanup thread run beside it, and the clock can jump past
\* the pool expiry. The engine can be unreachable when a request arrives; once
\* reached it does what it is asked.
Server == "e1"
Next ==
    \/ \E func \in Functions, runtime \in Runtimes,
          warm_start \in BOOLEAN, engine_up \in BOOLEAN :
          /\ requests < MaxRequests
          /\ execute_function(Server, func, runtime, warm_start, engine_up)
    \/ GetContainerFromPool(Server)
    \/ InitEnd(Server)
    \/ InitializeContainerPool(Server)
    \/ CreateContainer(Server, TRUE)
    \/ StageCode(Server, TRUE, TRUE)
    \/ ExecReturn(Server, TRUE)
    \/ EndTime(Server)
    \/ Teardown(Server, TRUE)
    \/ ExceptionHandler(Server, TRUE)
    \/ SaveAndRespond(Server)
    \/ RespondError(Server)
    \/ \E t \in Repls \cup {Server} :
          AddCreate(t, TRUE) \/ AddInsert(t) \/ AddAccessed(t)
    \/ SweepStep
    \/ (now + ExpiryTick \in CoarseClock /\ Tick(ExpiryTick))

Spec == Init /\ [][Next]_vars

\* The languages of the functions an executing thread of the pool
\* specification is given: python on every thread, javascript as well on one.
PoolLanguages(e) == IF e = "e3" THEN {"python", "javascript"} ELSE {"python"}

\* The pool under concurrent warm executions: every executing thread makes
\* one call run_in_docker(code, language, timeout, warm=True) and is followed
\* until it holds the container it will execute in (what a run does after
\* that touches neither the pool nor the lock), beside the replenishment
\* threads and the cleanup thread, with a clock that can jump past the pool
\* expiry and an engine that does what it is asked.
PoolNext ==
    \/ \E e \in Execs : \E language \in PoolLanguages(e) :
          run_in_docker(e, Hello, language, 1, TRUE, TRUE)
    \/ \E e \in Execs :
          \/ GetContainerFromPool(e)
          \/ InitializeContainerPool(e)
          \/ CreateContainer(e, TRUE)
    \/ \E t \in Adders :
          AddCreate(t, TRUE) \/ AddInsert(t) \/ AddAccessed(t) \/ AddStop(t, TRUE)
    \/ SweepStep
    \/ (now + ExpiryTick \in CoarseClock /\ Tick(ExpiryTick))

PoolSpec == Init /\ [][PoolNext]_vars

\* The pool under two concurrent warm executions of python functions, with
\* the scheduling the threads get: a replenishment or initial-fill thread
\* that can make its engine call makes it, a thread that finds the lock free
\* again and again takes it (the cleanup thread sleeps between its sweeps),
\* and the cleanup thread, once it holds the lock, goes on to release it. With
\* two executions a bucket never fills, so the stop branch of
\* add_container_to_pool is never taken.
LiveExecs == {"e1", "e2"}
LiveAdders == LiveExecs \cup Repls
LiveNext ==
    \/ \E e \in LiveExecs : run_in_docker(e, Hello, "python", 1, TRUE, TRUE)
    \/ \E e \in LiveExecs :
          \/ GetContainerFromPool(e)
          \/ InitializeContainerPool(e)
          \/ CreateContainer(e, TRUE)
    \/ \E t \in LiveAdders : AddCreate(t, TRUE) \/ AddInsert(t) \/ AddAccessed(t)
    \/ SweepStep
    \/ (now + ExpiryTick \in CoarseClock /\ Tick(ExpiryTick))

Fairness ==
    /\ \A t \in LiveAdders :
          /\ WF_vars(AddCreate(t, TRUE))
          /\ SF_vars(AddInsert(t))
          /\ WF_vars(AddAccessed(t))
    /\ \A e \in LiveExecs :
          /\ SF_vars(GetContainerFromPool(e))
          /\ SF_vars(InitializeContainerPool(e))
    /\ SF_vars(SweepLock)
    /\ WF_vars(SweepStop(TRUE))
    /\ WF_vars(SweepRemove)

LiveSpec == Init /\ [][LiveNext]_vars /\ Fairness

\* One call of a runner, with every outcome of every engine and file system
\* call and a clock that ticks in sub-millisecond and in one-second steps.
Caller == "e1"

\* The pool as a warm run that missed and whose program failed leaves it: the
\* two containers of the initial fill idle in the python bucket, the run's
\* own container stopped.
WarmPools ==
    "python_pool" :>
        [containers |-> <<[container |-> 1, created_at |-> 0, id |-> 1],
                          [container |-> 2, created_at |-> 0, id |-> 2]>>,
         last_accessed |-> 0]
WarmContainers ==
    <<[status |-> "running", runtime |-> "default", used |-> FALSE],
      [status |-> "running", runtime |-> "default", used |-> FALSE],
      [status |-> "stopped", runtime |-> "default", used |-> TRUE]>>

RunInit ==
    /\ now = 0
    /\ \E filled \in BOOLEAN :
         /\ container_pools = IF filled THEN WarmPools ELSE <<>>
         /\ pool_keys = IF filled THEN <<"python_pool">> ELSE <<>>
         /\ containers = IF filled THEN WarmContainers ELSE <<>>
    /\ pool_lock = "free"
    /\ ex = [e \in Execs |-> IdleExec]
    /\ adder = [t \in Adders |-> AdderOff]
    /\ sweep = IdleSweep
    /\ execution_metrics = <<>>
    /\ requests = 0
    /\ comparison = IdleComparison
    /\ functions = InitialFunctions
    /\ response = NoAnswer
    /\ frontend = NoCall

RunLanguages == {"python", "Python", "ruby"}

\* The clock readings within MaxFineTicks sub-millisecond ticks and
\* MaxSecondTicks one-second ticks.
FineClock ==
    {f + Seconds(s) : f \in 0..MaxFineTicks, s \in 0..MaxSecondTicks}

RunNext ==
    \/ \E code \in Programs, language \in RunLanguages, timeout \in Timeouts,
          warm \in BOOLEAN, engine_up \in BOOLEAN :
          run_in_docker(Caller, code, language, timeout, warm, engine_up)
    \/ \E code \in Programs, language \in RunLanguages, timeout \in Timeouts,
          engine_up \in BOOLEAN :
          run_in_gvisor(Caller, code, language, timeout, engine_up)
    \/ GetContainerFromPool(Caller)
    \/ InitEnd(Caller)
    \/ InitializeContainerPool(Caller)
    \/ \E created \in BOOLEAN : CreateContainer(Caller, created)
    \/ \E written \in BOOLEAN, copied \in BOOLEAN : StageCode(Caller, written, copied)
    \/ \E returned \in BOOLEAN : ExecReturn(Caller, returned)
    \/ EndTime(Caller)
    \/ \E done \in BOOLEAN : Teardown(Caller, done)
    \/ \E stopped \in BOOLEAN : ExceptionHandler(Caller, stopped)
    \/ \E t \in Repls \cup {Caller}, created \in BOOLEAN : AddCreate(t, created)
    \/ \E t \in Repls \cup {Caller} :
          AddFromEnvRaises(t) \/ AddInsert(t) \/ AddAccessed(t)
    \/ \E d \in {1, TicksPerSecond} : now + d \in FineClock /\ Tick(d)

RunSpec == RunInit /\ [][RunNext]_vars

\* ------------------------------------------------- the metrics queries

\* The indices of the rows a query's filters let through, in table order.
SelectRows(rows, Keep(_)) ==
    LET kept == {i \in 1..Len(rows) : Keep(rows[i])}
        Nth(k) == CHOOSE i \in kept : Cardinality({j \in kept : j < i}) = k - 1
    IN [k \in 1..Cardinality(kept) |-> rows[Nth(k)]]

\* ORDER BY timestamp DESC: the orders the database may give the rows in (rows
\* of equal timestamp come in any order).
NewestFirst(selected) ==
    LET n == Len(selected)
        perms == {p \in [1..n -> 1..n] : \A i, j \in 1..n : i # j => p[i] # p[j]}
    IN {[i \in 1..n |-> selected[p[i]]] : p \in
           {q \in perms : \A i \in 1..n, j \in 1..n :
                i < j => selected[q[i]].timestamp >= selected[q[j]].timestamp}}

get_metrics_for_functionMutant(rows, function_name, limit) ==
    LET OfFunction(row) == row.function_name = function_name
        selected == SelectRows(rows, OfFunction)
    IN {SubSeq(ordered, 1, IF limit < Len(ordered) THEN limit ELSE Len(ordered)) :
           ordered \in {selected}}
\* metrics.py 55-76: the results the query can give (one for every order of
\* the rows of equal timestamp).
get_metrics_for_function(rows, function_name, limit) ==
    LET OfFunction(row) == row.function_name = function_name
        selected == SelectRows(rows, OfFunction)
    IN {SubSeq(ordered, 1, IF limit < Len(ordered) THEN limit ELSE Len(ordered)) :
           ordered \in NewestFirst(selected)}

\* Exact fractions, in lowest terms, for the quotients and means of integers.
RECURSIVE GCD(_, _)
GCD(a, b) == IF b = 0 THEN a ELSE GCD(b, a % b)
Ratio(n, d) ==
    LET g == GCD(IF n < 0 THEN -n ELSE n, d) IN
    IF n = 0 THEN [num |-> 0, den |-> 1]
    ELSE [num |-> IF n < 0 THEN -((-n) \div g) ELSE n \div g, den |-> d \div g]
RatioAdd(a, b) == Ratio(a.num * b.den + b.num * a.den, a.den * b.den)
RatioLess(a, b) == a.num * b.den < b.num * a.den
Zero == Ratio(0, 1)

RECURSIVE Sum(_)
Sum(xs) == IF xs = <<>> THEN 0 ELSE Head(xs) + Sum(Tail(xs))
\* statistics.mean
Mean(xs) == Ratio(Sum(xs), Len(xs))

\* ------------------------------------------------ Python floats
\* The rates and the percentages are Python floats (metrics.py 141-143,
\* main.py 222-224): IEEE 754 doubles. A float is here its sign, its exponent
\* and its significand of DoublePrecision bits: the value is
\* sig * 2^(exp - (DoublePrecision - 1)), negated if neg, and sig is 0 or has
\* its leading bit set. A significand is a number too large for one int: the
\* pair <<high, low>> of its two digits to the base Limb.
DoublePrecision == 53
LimbBits == (DoublePrecision + 1) \div 2
RECURSIVE Pow2(_)
Pow2(k) == IF k = 0 THEN 1 ELSE 2 * Pow2(k - 1)
TwoTo == [k \in 0..30 |-> Pow2(k)]
Limb == TwoTo[LimbBits]

NatLess(a, b) == a[1] < b[1] \/ (a[1] = b[1] /\ a[2] < b[2])
NatAdd(a, b) ==
    IF a[2] + b[2] >= Limb THEN <<a[1] + b[1] + 1, a[2] + b[2] - Limb>>
    ELSE <<a[1] + b[1], a[2] + b[2]>>
\* a - b for a >= b
NatSub(a, b) ==
    IF a[2] >= b[2] THEN <<a[1] - b[1], a[2] - b[2]>>
    ELSE <<a[1] - b[1] - 1, a[2] + Limb - b[2]>>
\* a * k for a small k
NatTimes(a, k) == <<a[1] * k + (a[2] * k) \div Limb, (a[2] * k) % Limb>>
\* The number of binary digits of n > 0.
BitLength(n) == CHOOSE len \in 1..31 : TwoTo[len - 1] <= n /\ (len = 31 \/ n < TwoTo[len])
NatBitLength(a) == IF a[1] > 0 THEN LimbBits + BitLength(a[1]) ELSE BitLength(a[2])
\* a * 2^k, which has to fit.
NatShiftLeft(a, k) ==
    LET Shift(b, j) == <<b[1] * TwoTo[j] + b[2] \div TwoTo[LimbBits - j],
                         (b[2] % TwoTo[LimbBits - j]) * TwoTo[j]>>
    IN IF k < LimbBits THEN Shift(a, k)
       ELSE <<(a[1] * Limb + a[2]) * TwoTo[k - LimbBits], 0>>
\* a \div 2^k, and a sticky bit in the last place when a bit that is set was
\* shifted out.
NatShiftRight(a, k) ==
    LET kept == IF k < LimbBits
                THEN <<a[1] \div TwoTo[k],
                       a[2] \div TwoTo[k] + (a[1] % TwoTo[k]) * TwoTo[LimbBits - k]>>
                ELSE IF k < 2 * LimbBits
                THEN <<(a[1] \div TwoTo[k - LimbBits]) \div Limb,
                       (a[1] \div TwoTo[k - LimbBits]) % Limb>>
                ELSE <<0, 0>>
        lost == IF k < LimbBits THEN a[2] % TwoTo[k] # 0
                ELSE IF k < 2 * LimbBits
                THEN a[2] # 0 \/ a[1] % TwoTo[k - LimbBits] # 0
                ELSE a # <<0, 0>>
    IN IF lost /\ kept[2] % 2 = 0 THEN <<kept[1], kept[2] + 1>> ELSE kept

FloatZero == [neg |-> FALSE, exp |-> 0, sig |-> <<0, 0>>]
FloatOne == [neg |-> FALSE, exp |-> 0, sig |-> <<TwoTo[DoublePrecision - 1 - LimbBits], 0>>]
\* The doubles next to 1.0: 0.9999999999999999 and 1.0000000000000002.
FloatBelowOne ==
    [neg |-> FALSE, exp |-> -1,
     sig |-> <<TwoTo[DoublePrecision - LimbBits] - 1, Limb - 1>>]
FloatAboveOne ==
    [neg |-> FALSE, exp |-> 0, sig |-> <<TwoTo[DoublePrecision - 1 - LimbBits], 1>>]

\* The float nearest to m * 2^e, ties to the even significand, negated if
\* neg: m either is exact or has at least three bits more than
\* DoublePrecision and a sticky bit in the last place.
NatRound(neg, m, e) ==
    IF m = <<0, 0>> THEN FloatZero
    ELSE LET len == NatBitLength(m)
             wide == IF len <= DoublePrecision + 3
                     THEN NatShiftLeft(m, DoublePrecision + 3 - len)
                     ELSE NatShiftRight(m, len - (DoublePrecision + 3))
             kept == <<wide[1] \div 8, wide[2] \div 8 + (wide[1] % 8) * (Limb \div 8)>>
             rest == wide[2] % 8
             up == rest > 4 \/ (rest = 4 /\ kept[2] % 2 = 1)
             rounded == IF up THEN NatAdd(kept, <<0, 1>>) ELSE kept
         IN IF rounded = <<TwoTo[DoublePrecision - LimbBits], 0>>
            THEN [neg |-> neg, exp |-> e + len,
                  sig |-> <<TwoTo[DoublePrecision - 1 - LimbBits], 0>>]
            ELSE [neg |-> neg, exp |-> e + len - 1, sig |-> rounded]

\* float(n) of an int 0 <= n < Limb
FloatOfInt(n) == NatRound(FALSE, <<0, n>>, 0)

\* The significands of x and y with three more bits, brought to the greater
\* of the two exponents.
Aligned(x, y) ==
    LET exp == IF x.exp >= y.exp THEN x.exp ELSE y.exp
    IN [exp |-> exp - (DoublePrecision + 2),
        x |-> NatShiftRight(NatTimes(x.sig, 8), exp - x.exp),
        y |-> NatShiftRight(NatTimes(y.sig, 8), exp - y.exp)]

\* x + y of two floats that are not negative.
FloatAdd(x, y) ==
    IF x = FloatZero THEN y
    ELSE IF y = FloatZero THEN x
    ELSE LET a == Aligned(x, y) IN NatRound(FALSE, NatAdd(a.x, a.y), a.exp)

\* x - y of two floats that are not negative.
FloatSub(x, y) ==
    IF y = FloatZero THEN x
    ELSE IF x = FloatZero THEN [y EXCEPT !.neg = TRUE]
    ELSE LET a == Aligned(x, y)
         IN IF NatLess(a.x, a.y) THEN NatRound(TRUE, NatSub(a.y, a.x), a.exp)
            ELSE NatRound(FALSE, NatSub(a.x, a.y), a.exp)

\* Long division to the base 8 of a significand by the significand b: at each
\* place division.rem is what is left to divide and division.q are the digits
\* found. When nothing is left the digits to come are 0; when the places are
\* used up a sticky bit stands for what is left.
RECURSIVE NatQuotient(_, _, _)
NatQuotient(division, b, places) ==
    IF division.rem = <<0, 0>> THEN NatShiftLeft(division.q, 3 * places)
    ELSE IF places = 0
    THEN IF division.q[2] % 2 = 0 THEN NatAdd(division.q, <<0, 1>>) ELSE division.q
    ELSE LET top == NatTimes(division.rem, 8)
             digit == CHOOSE d \in 0..15 :
                          ~NatLess(top, NatTimes(b, d)) /\ NatLess(top, NatTimes(b, d + 1))
         IN NatQuotient([rem |-> NatSub(top, NatTimes(b, digit)),
                         q |-> NatAdd(NatTimes(division.q, 8), <<0, digit>>)],
                        b, places - 1)

\* x / y of two floats, y # 0: the quotient of the significands to
\* DoublePrecision + 4 binary places, rounded.
FloatDiv(x, y) ==
    NatRound(x.neg # y.neg,
             NatQuotient([rem |-> x.sig, q |-> <<0, 0>>], y.sig, (DoublePrecision + 4) \div 3),
             x.exp - y.exp - (DoublePrecision + 4))

\* a / b of two ints (0 <= a < Limb, 0 < b < Limb): the float nearest to the
\* quotient.
TrueDiv(a, b) == FloatDiv(FloatOfInt(a), FloatOfInt(b))

\* x * 100
FloatTimes100(x) ==
    NatRound(x.neg, NatTimes(NatTimes(x.sig, 5), 5), x.exp - (DoublePrecision - 1) + 2)

\* sorted(xs): insertion into an ascending sequence.
RECURSIVE Sorted(_)
Insert(x, xs) ==
    LET k == Cardinality({i \in 1..Len(xs) : xs[i] <= x}) IN
    SubSeq(xs, 1, k) \o <<x>> \o SubSeq(xs, k + 1, Len(xs))
Sorted(xs) == IF xs = <<>> THEN <<>> ELSE Insert(Head(xs), Sorted(Tail(xs)))

PercentileIndexMutant(n, percent) == 0
\* metrics.py 126-127: int(len(execution_times) * 0.95), * 0.99, as indices of
\* a zero-based list.
PercentileIndex(n, percent) == (n * percent) \div 100

\* statistics.stdev, by its square: the sample variance
\* (n * sum(x^2) - sum(x)^2) / (n * (n - 1)).
Variance(xs) ==
    LET n == Len(xs) IN
    Ratio(n * Sum([i \in 1..n |-> xs[i] * xs[i]]) - Sum(xs) * Sum(xs), n * (n - 1))

\* metrics.py 88-95: timestamp >= datetime('now', '-1 hour') and the like. The
\* bound is a text of whole seconds and the column a text with microseconds,
\* so a row is kept when its second is not before the bound's.
RangeSeconds(time_range) ==
    CASE time_range = "1h" -> 3600
      [] time_range = "24h" -> 86400
      [] time_range = "7d" -> 604800
      [] time_range = "30d" -> 2592000
      [] OTHER -> -1
InRange(timestamp, t, time_range) ==
    RangeSeconds(time_range) < 0
        \/ timestamp \div TicksPerSecond
              >= (t \div TicksPerSecond) - RangeSeconds(time_range)

\* metrics.py 99-108
ZeroRecord ==
    [count |-> 0, avg_execution_time_ms |-> Zero, avg_total_time_ms |-> Zero,
     success_rate |-> Zero, error_rate |-> Zero, timeout_rate |-> Zero,
     cold_start_percentage |-> Zero]

CountIf(xs, P(_)) == Cardinality({i \in 1..Len(xs) : P(xs[i])})

HasPercentilesMutant(execution_times) == Len(execution_times) >= 1
\* metrics.py 125, 137-139: len(execution_times) >= 2
HasPercentiles(execution_times) == Len(execution_times) >= 2

\* None in a number-valued place of a response, and a number there.
Null == <<>>
Some(x) == <<x>>

\* "if function_name:" (metrics.py 84, main.py 147): a name counts as given
\* when it is neither None nor the empty string.
Given(function_name) == function_name \notin {None, ""}

\* metrics.py 78-149: the aggregation at clock reading t. The time columns of
\* the rows save_execution_metrics stores are never NULL here, so the two
\* "is not None" filters of lines 117-118 keep every row.
get_aggregated_metrics(rows, t, function_name, time_range) ==
    LET Matches(row) ==
            /\ (Given(function_name) => row.function_name = function_name)
            /\ InRange(row.timestamp, t, time_range)
        metrics == SelectRows(rows, Matches)
        total_count == Len(metrics)
        IsSuccess(m) == m.status = "success"
        IsError(m) == m.status = "error"
        IsTimeout(m) == m.status = "timeout"
        IsCold(m) == m.cold_start
        IsDocker(m) == m.runtime = "docker"
        IsGvisor(m) == m.runtime = "gvisor"
        execution_times == [i \in 1..total_count |-> metrics[i].execution_time_ms]
        total_times == [i \in 1..total_count |-> metrics[i].total_time_ms]
        n == Len(execution_times)
    IN IF total_count = 0 THEN ZeroRecord
       ELSE [count |-> total_count,
             avg_execution_time_ms |->
                 IF n > 0 THEN Mean(execution_times) ELSE Zero,
             p95_execution_time_ms |->
                 IF HasPercentiles(execution_times)
                 THEN Some(Sorted(execution_times)[PercentileIndex(n, 95) + 1])
                 ELSE Null,
             p99_execution_time_ms |->
                 IF HasPercentiles(execution_times)
                 THEN Some(Sorted(execution_times)[PercentileIndex(n, 99) + 1])
                 ELSE Null,
             stdev_execution_time_ms |->
                 IF HasPercentiles(execution_times)
                 THEN Some([squared |-> Variance(execution_times)]) ELSE Null,
             avg_total_time_ms |->
                 IF total_times # <<>> THEN Mean(total_times) ELSE Zero,
             success_rate |-> Ratio(CountIf(metrics, IsSuccess), total_count),
             error_rate |-> Ratio(CountIf(metrics, IsError), total_count),
             timeout_rate |-> Ratio(CountIf(metrics, IsTimeout), total_count),
             cold_start_percentage |-> Ratio(CountIf(metrics, IsCold), total_count),
             runtime_breakdown |->
                 [docker |-> CountIf(metrics, IsDocker),
                  gvisor |-> CountIf(metrics, IsGvisor)]]

\* The metrics store on its own: save_execution_metrics is called with
\* results of the shapes its callers pass (main.py 112, 179, 186: a runner's
\* result, which always has a status, with the metrics block of either runner
\* or with none), while the clock advances by seconds and past an hour;
\* requests counts the calls.
StoreNames == {"hello", "rb"}
StoreResults ==
    { [status |-> "success", stdout |-> "Hello", stderr |-> "", exit_code |-> 0,
       metrics |-> [start_time |-> 0, runtime |-> "docker", language |-> "python",
                    execution_time_ms |-> 10, initialization_time_ms |-> 2,
                    total_time_ms |-> 12, warm_start |-> TRUE, error |-> None]],
      [status |-> "error", stdout |-> "", stderr |-> "Traceback", exit_code |-> 2,
       metrics |-> [start_time |-> 0, runtime |-> "gvisor", language |-> "python",
                    execution_time_ms |-> 20, initialization_time_ms |-> 3,
                    total_time_ms |-> 25, error |-> "exit_code_2"]],
      [status |-> "timeout", stdout |-> "", stderr |-> TimeoutMessage(1),
       exit_code |-> -1,
       metrics |-> [start_time |-> 0, runtime |-> "docker", language |-> "python",
                    execution_time_ms |-> 30, initialization_time_ms |-> 1,
                    total_time_ms |-> 31, warm_start |-> FALSE, error |-> "timeout"]],
      [status |-> "success", stdout |-> "Hello", stderr |-> "", exit_code |-> 0] }

StoreClock ==
    {Seconds(s) + Seconds(3601) * h : s \in 0..MaxSecondTicks, h \in 0..MaxHourTicks}

\* A call save_execution_metrics(db, function_name, result).
Save(function_name, result) ==
    /\ requests' = requests + 1
    /\ execution_metrics' =
          save_execution_metrics(execution_metrics, now, function_name, result)
    /\ UNCHANGED <<now, container_pools, pool_lock, containers, ex, adder, sweep,
                   comparison, functions, response, frontend, pool_keys>>

StoreNext ==
    \/ \E function_name \in StoreNames, result \in StoreResults :
          requests < MaxRows /\ Save(function_name, result)
    \/ \E d \in {Seconds(1), Seconds(3601)} : now + d \in StoreClock /\ Tick(d)

StoreSpec == Init /\ [][StoreNext]_vars

\* The store filled with more rows: the results of one function that have a
\* metrics block (one of each status) are saved up to MaxRateRows times, at
\* one time. The rates of an aggregation depend on the rows only through the
\* number of rows of each status, and every split of up to MaxRateRows rows
\* over the three statuses is reached.
RateResults == {result \in StoreResults : "metrics" \in DOMAIN result}
RateNext ==
    \E result \in RateResults : requests < MaxRateRows /\ Save("hello", result)

RateSpec == Init /\ [][RateNext]_vars

\* The arguments the queries are asked with.
Limits == 1..MaxRows
TimeRanges == {"1h", "24h", "7d", "30d"}
FunctionFilters == StoreNames \cup {None, ""}

\* ------------------------------------------------------ compare_runtimes

\* main.py 189-195: [r['metrics'][key] for r in results]
MetricsOf(results, key) == [k \in 1..Len(results) |-> results[k].metrics[key]]

RECURSIVE Min(_)
Min(xs) ==
    IF Len(xs) = 1 THEN xs[1]
    ELSE LET m == Min(Tail(xs)) IN IF Head(xs) < m THEN Head(xs) ELSE m
RECURSIVE Max(_)
Max(xs) ==
    IF Len(xs) = 1 THEN xs[1]
    ELSE LET m == Max(Tail(xs)) IN IF Head(xs) > m THEN Head(xs) ELSE m

RuntimeStatsMutant(results, iterations) ==
    LET IsSuccess(r) == r.status = "success"
        kept == SelectRows(results, IsSuccess)
    IN
    [avg_init_time_ms |-> Mean(MetricsOf(kept, "initialization_time_ms")),
     avg_exec_time_ms |-> Mean(MetricsOf(kept, "execution_time_ms")),
     avg_total_time_ms |-> Mean(MetricsOf(kept, "total_time_ms")),
     min_total_time_ms |-> Min(MetricsOf(results, "total_time_ms")),
     max_total_time_ms |-> Max(MetricsOf(results, "total_time_ms")),
     success_rate |-> Ratio(CountIf(results, IsSuccess), iterations)]
\* main.py 198-214: the statistics of one runtime's results.
RuntimeStats(results, iterations) ==
    LET IsSuccess(r) == r.status = "success" IN
    [avg_init_time_ms |-> Mean(MetricsOf(results, "initialization_time_ms")),
     avg_exec_time_ms |-> Mean(MetricsOf(results, "execution_time_ms")),
     avg_total_time_ms |-> Mean(MetricsOf(results, "total_time_ms")),
     min_total_time_ms |-> Min(MetricsOf(results, "total_time_ms")),
     max_total_time_ms |-> Max(MetricsOf(results, "total_time_ms")),
     success_rate |-> Ratio(CountIf(results, IsSuccess), iterations)]

\* main.py 222-224: (gvisor - docker) / docker * 100 for docker # 0, in
\* floats: the two means are ints or the floats nearest to them
\* (statistics.mean), and the difference, the quotient and the product are
\* each rounded.
DifferencePercent(gvisor, docker) ==
    FloatTimes100(FloatDiv(FloatSub(TrueDiv(gvisor.num, gvisor.den),
                                    TrueDiv(docker.num, docker.den)),
                           TrueDiv(docker.num, docker.den)))

RecommendationMutant(docker_stats, gvisor_stats) ==
    IF RatioLess(gvisor_stats.avg_total_time_ms, docker_stats.avg_total_time_ms)
    THEN "docker" ELSE "gvisor"
\* main.py 226
Recommendation(docker_stats, gvisor_stats) ==
    IF RatioLess(docker_stats.avg_total_time_ms, gvisor_stats.avg_total_time_ms)
    THEN "docker" ELSE "gvisor"

\* main.py 188-229: the comparison object, or the ZeroDivisionError that a
\* docker mean of 0 raises in lines 222-224, which the server answers with
\* 500.
CompareResponse(docker_results, gvisor_results, iterations) ==
    LET docker_stats == RuntimeStats(docker_results, iterations)
        gvisor_stats == RuntimeStats(gvisor_results, iterations)
    IN IF \/ docker_stats.avg_init_time_ms = Zero
          \/ docker_stats.avg_exec_time_ms = Zero
          \/ docker_stats.avg_total_time_ms = Zero
       THEN [status_code |-> 500, detail |-> "ZeroDivisionError"]
       ELSE [status_code |-> 200,
             iterations |-> iterations,
             docker |-> docker_stats,
             gvisor |-> gvisor_stats,
             difference_percent |->
                [init_time |-> DifferencePercent(gvisor_stats.avg_init_time_ms,
                                                 docker_stats.avg_init_time_ms),
                 exec_time |-> DifferencePercent(gvisor_stats.avg_exec_time_ms,
                                                 docker_stats.avg_exec_time_ms),
                 total_time |-> DifferencePercent(gvisor_stats.avg_total_time_ms,
                                                  docker_stats.avg_total_time_ms)],
             recommendation |-> Recommendation(docker_stats, gvisor_stats)]

\* main.py 155-172: GET /runtime/compare for a stored function; the endpoint
\* runs on the server's thread, for the first time or after a comparison that
\* has been answered, and starts with empty lists of results.
compare_runtimes(func, iterations) ==
    /\ comparison.pc \in {"idle", "done"}
    /\ ex[Server].pc = "idle"
    /\ comparison' = [IdleComparison EXCEPT !.pc = "docker", !.func = func,
                                            !.iterations = iterations]
    /\ response' = PendingAnswer("compare", func.name, [iterations |-> iterations])
    /\ UNCHANGED <<now, container_pools, pool_lock, containers, ex, adder, sweep,
                   execution_metrics, requests, functions, frontend, pool_keys>>

CompareWarmMutant(i) == TRUE
\* main.py 177: warm=(i > 0)
CompareWarm(i) == i > 0

\* main.py 175-177, 182-184: the loop calls the runner of its phase.
CompareCall(engine_up) ==
    /\ comparison.pc \in {"docker", "gvisor"}
    /\ ex[Server].pc = "idle"
    /\ LET func == comparison.func IN
       ex' = [ex EXCEPT ![Server] =
                IF comparison.pc = "docker"
                THEN run_in_docker_frame(func.name, func.code, func.language,
                                         func.timeout, CompareWarm(comparison.i),
                                         engine_up)
                ELSE run_in_gvisor_frame(func.name, func.code, func.language,
                                         func.timeout, engine_up)]
    /\ UNCHANGED <<now, container_pools, pool_lock, containers, adder, sweep,
                   execution_metrics, requests, comparison, functions, response, frontend, pool_keys>>

\* main.py 178-179, 185-186: the result is kept and saved; after the last
\* docker iteration the gvisor loop starts, after the last gvisor iteration
\* the statistics are due.
CompareCollect ==
    /\ comparison.pc \in {"docker", "gvisor"}
    /\ ex[Server].pc = "returned"
    /\ execution_metrics' =
          save_execution_metrics(execution_metrics, now, comparison.func.name,
                                 ex[Server].result)
    /\ LET last == comparison.i + 1 = comparison.iterations IN
       comparison' =
          IF comparison.pc = "docker"
          THEN [comparison EXCEPT
                  !.docker_results = Append(@, ex[Server].result),
                  !.i = IF last THEN 0 ELSE @ + 1,
                  !.pc = IF last THEN "gvisor" ELSE "docker"]
          ELSE [comparison EXCEPT
                  !.gvisor_results = Append(@, ex[Server].result),
                  !.i = IF last THEN 0 ELSE @ + 1,
                  !.pc = IF last THEN "stats" ELSE "gvisor"]
    /\ ex' = [ex EXCEPT ![Server] = IdleExec]
    /\ UNCHANGED <<now, container_pools, pool_lock, containers, adder, sweep,
                   requests, functions, response, frontend, pool_keys>>

\* An exception that leaves a runner leaves compare_runtimes too (it has no
\* handler): the server answers 500.
CompareRaise ==
    /\ comparison.pc \in {"docker", "gvisor"}
    /\ ex[Server].pc = "raised"
    /\ comparison' = [comparison EXCEPT
                        !.pc = "done",
                        !.response = [status_code |-> 500, detail |-> ex[Server].exc]]
    /\ response' = Answer("compare", response.name, response.request, 500,
                          [detail |-> ex[Server].exc])
    /\ ex' = [ex EXCEPT ![Server] = IdleExec]
    /\ UNCHANGED <<now, container_pools, pool_lock, containers, adder, sweep,
                   execution_metrics, requests, functions, frontend, pool_keys>>

\* main.py 188-229
CompareRespond ==
    /\ comparison.pc = "stats"
    /\ comparison' = [comparison EXCEPT
                        !.pc = "done",
                        !.response = CompareResponse(comparison.docker_results,
                                                     comparison.gvisor_results,
                                                     comparison.iterations)]
    /\ response' = Answer("compare", response.name, response.request,
                          comparison'.response.status_code, comparison'.response)
    /\ UNCHANGED <<now, container_pools, pool_lock, containers, ex, adder, sweep,
                   execution_metrics, requests, functions, frontend, pool_keys>>

\* One compare request, for 1 to MaxIterations iterations, with an engine that
\* can be unreachable when a runner is called and can fail to create a
\* container, beside the replenishment threads, with a clock that ticks in
\* milliseconds and can jump by a second once; time passes while the engine
\* creates the runner's container and while the code executes. The pool is
\* empty when the request arrives and only the docker runs after the first
\* are warm, so with MaxIterations = 2 the one warm run misses the pool and
\* no run is handed a pooled container.
Iterations == 1..MaxIterations
CompareClock ==
    {ClockResolution * f + Seconds(s) : f \in 0..MaxCompareTicks, s \in 0..1}

CompareNext ==
    \/ \E func \in Functions, iterations \in Iterations :
          /\ comparison.pc = "idle"
          /\ compare_runtimes(func, iterations)
    \/ \E engine_up \in BOOLEAN : CompareCall(engine_up)
    \/ GetContainerFromPool(Server)
    \/ InitializeContainerPool(Server)
    \/ \E created \in BOOLEAN : CreateContainer(Server, created)
    \/ StageCode(Server, TRUE, TRUE)
    \/ ExecReturn(Server, TRUE)
    \/ EndTime(Server)
    \/ Teardown(Server, TRUE)
    \/ ExceptionHandler(Server, TRUE)
    \/ CompareCollect
    \/ CompareRaise
    \/ CompareRespond
    \/ \E t \in Repls \cup {Server} :
          AddCreate(t, TRUE) \/ AddInsert(t) \/ AddAccessed(t)
    \/ \E d \in {ClockResolution, Seconds(1)} :
          /\ ex[Server].pc \in {"create", "exec"}
          /\ now + d \in CompareClock
          /\ Tick(d)

CompareSpec == Init /\ [][CompareNext]_vars

\* One compare request again, for the repeated runs of one function record:
\* the pool is empty or already holds two idle python containers when the
\* request arrives (a warm run is then handed a pooled container), and beside
\* the engine being unreachable or failing to create a container, the source
\* file may fail to be written and the copy into the container may fail.
\* Time passes while the code executes.
RepeatNext ==
    \/ \E func \in Functions, iterations \in Iterations :
          /\ comparison.pc = "idle"
          /\ compare_runtimes(func, iterations)
    \/ \E engine_up \in BOOLEAN : CompareCall(engine_up)
    \/ GetContainerFromPool(Server)
    \/ InitEnd(Server)
    \/ InitializeContainerPool(Server)
    \/ \E created \in BOOLEAN : CreateContainer(Server, created)
    \/ \E written \in BOOLEAN, copied \in BOOLEAN : StageCode(Server, written, copied)
    \/ ExecReturn(Server, TRUE)
    \/ EndTime(Server)
    \/ Teardown(Server, TRUE)
    \/ ExceptionHandler(Server, TRUE)
    \/ CompareCollect
    \/ CompareRaise
    \/ CompareRespond
    \/ \E t \in Repls \cup {Server} :
          AddCreate(t, TRUE) \/ AddInsert(t) \/ AddAccessed(t)
    \/ \E d \in {ClockResolution, Seconds(1)} :
          /\ ex[Server].pc = "exec"
          /\ now + d \in CompareClock
          /\ Tick(d)

RepeatSpec == RunInit /\ [][RepeatNext]_vars

\* ------------------------------------------------------ the function store

\* db.query(Function).filter(Function.name == name): the rows of that name.
RowsNamed(table, name) == {row \in table : row.name = name}
\* .first() of that query (the row of the least id when there are several).
FirstNamed(table, name) ==
    CHOOSE row \in RowsNamed(table, name) :
        \A other \in RowsNamed(table, name) : row.id <= other.id

\* database.py 16: the id the table gives its next row.
NextId(table) ==
    IF table = {} THEN 1
    ELSE 1 + (CHOOSE id \in {row.id : row \in table} :
                  \A row \in table : row.id <= id)

\* database.py 17: name = Column(String, unique=True): the table refuses a
\* write that would leave two rows with one name (IntegrityError).
UniqueNames(table) ==
    \A r1 \in table, r2 \in table : r1.name = r2.name => r1 = r2

\* The server handles one request at a time: its endpoints are coroutines that
\* never await, so each runs to its end on the event loop before the next
\* request is read.
ServerIdle ==
    /\ ex[Server].pc = "idle"
    /\ comparison.pc \in {"idle", "done"}

\* The variables no endpoint of the function store writes.
platform == <<now, container_pools, pool_lock, containers, ex, adder, sweep,
              execution_metrics, requests, comparison, frontend, pool_keys>>

InsertRowMutant(table, func) ==
    [ok |-> TRUE, table |-> table \cup {FunctionRow(NextId(table), func)}]
\* main.py 44-48: db.add and db.commit of a new row, which the table accepts or
\* refuses.
InsertRow(table, func) ==
    LET written == table \cup {FunctionRow(NextId(table), func)} IN
    IF UniqueNames(written) THEN [ok |-> TRUE, table |-> written]
    ELSE [ok |-> FALSE, table |-> table]

\* main.py 42-52: POST /functions/; a refused write is rolled back and
\* answered with 500.
create_function(func) ==
    /\ ServerIdle
    /\ LET write == InsertRow(functions, func) IN
       /\ functions' = write.table
       /\ response' =
             IF write.ok
             THEN Answer("create", func.name, func, 200, [message |-> "Function saved"])
             ELSE Answer("create", func.name, func, 500,
                         [detail |-> "Database error: IntegrityError"])
    /\ UNCHANGED platform

\* main.py 54-57: GET /functions/
list_functions ==
    /\ ServerIdle
    /\ response' = Answer("list", None, None, 200, functions)
    /\ UNCHANGED <<functions, platform>>

\* main.py 59-64: GET /functions/{name}
get_function(name) ==
    /\ ServerIdle
    /\ response' =
          IF RowsNamed(functions, name) = {}
          THEN NotFound("get", name, None)
          ELSE Answer("get", name, None, 200, FirstNamed(functions, name))
    /\ UNCHANGED <<functions, platform>>

UpdateRowMutant(row, updated) ==
    [row EXCEPT !.name = updated.name, !.language = updated.language,
                !.timeout = updated.timeout]
\* main.py 71-72: every field of the request is set on the row.
UpdateRow(row, updated) ==
    [row EXCEPT !.name = updated.name, !.language = updated.language,
                !.code = updated.code, !.timeout = updated.timeout]

\* main.py 66-74: PUT /functions/{name}; a write the table refuses raises at
\* db.commit(), which nothing catches: the server answers 500 and the session
\* is closed without the write.
update_function(name, updated) ==
    /\ ServerIdle
    /\ IF RowsNamed(functions, name) = {}
       THEN /\ response' = NotFound("update", name, updated)
            /\ UNCHANGED functions
       ELSE LET row == FirstNamed(functions, name)
                written == (functions \ {row}) \cup {UpdateRow(row, updated)}
            IN IF UniqueNames(written)
               THEN /\ functions' = written
                    /\ response' = Answer("update", name, updated, 200,
                                          [message |-> "Function updated"])
               ELSE /\ response' = Answer("update", name, updated, 500,
                                          [detail |-> "Internal Server Error"])
                    /\ UNCHANGED functions
    /\ UNCHANGED platform

DeleteRowMutant(table, row) == table
\* main.py 81-82: db.delete(func), db.commit()
DeleteRow(table, row) == table \ {row}

\* main.py 76-83: DELETE /functions/{name}
delete_function(name) ==
    /\ ServerIdle
    /\ IF RowsNamed(functions, name) = {}
       THEN /\ response' = NotFound("delete", name, None)
            /\ UNCHANGED functions
       ELSE /\ functions' = DeleteRow(functions, FirstNamed(functions, name))
            /\ response' = Answer("delete", name, None, 200,
                                  [message |-> "Function deleted"])
    /\ UNCHANGED platform

\* main.py 85-98: POST /functions/execute/{name}: the record is read from the
\* table; without one the answer is 404, with one the runner is called.
ExecuteRequest(name, runtime, warm_start, engine_up) ==
    /\ ServerIdle
    /\ IF RowsNamed(functions, name) = {}
       THEN /\ response' = NotFound("execute", name,
                                    [runtime |-> runtime, warm_start |-> warm_start])
            /\ UNCHANGED <<functions, platform>>
       ELSE execute_function(Server, FirstNamed(functions, name), runtime,
                             warm_start, engine_up)

\* A request parameter that fails its declared range or pattern is answered
\* by the framework, before the endpoint runs.
ValidationError(op, name, request) ==
    Answer(op, name, request, 422, [detail |-> "validation error"])

\* main.py 129: limit: int = Query(100, ge=1, le=1000)
ValidLimit(limit) == limit >= 1 /\ limit <= 1000
\* main.py 143: time_range: str = Query("24h", regex="^(1h|24h|7d|30d)$")
ValidTimeRange(time_range) == time_range \in TimeRanges
\* main.py 158: iterations: int = Query(5, ge=1, le=20)
ValidIterations(iterations) == iterations >= 1 /\ iterations <= 20

\* main.py 126-138: GET /metrics/functions/{name}
get_function_metrics(name, limit) ==
    /\ ServerIdle
    /\ LET request == [limit |-> limit] IN
       IF ~ValidLimit(limit)
       THEN response' = ValidationError("metrics", name, request)
       ELSE IF RowsNamed(functions, name) = {}
       THEN response' = NotFound("metrics", name, request)
       ELSE \E metrics \in get_metrics_for_function(execution_metrics, name, limit) :
               response' = Answer("metrics", name, request, 200, metrics)
    /\ UNCHANGED <<functions, platform>>

\* main.py 140-153: GET /metrics/aggregated; a name is looked up only when
\* one is given.
get_system_metrics(function_name, time_range) ==
    /\ ServerIdle
    /\ LET request == [time_range |-> time_range] IN
       response' =
          IF ~ValidTimeRange(time_range)
          THEN ValidationError("aggregated", function_name, request)
          ELSE IF Given(function_name) /\ RowsNamed(functions, function_name) = {}
          THEN NotFound("aggregated", function_name, request)
          ELSE Answer("aggregated", function_name, request, 200,
                      get_aggregated_metrics(execution_metrics, now,
                                             function_name, time_range))
    /\ UNCHANGED <<functions, platform>>

\* main.py 155-165: GET /runtime/compare: the range of iterations, then the
\* record, then the comparison.
CompareRequest(function_name, iterations) ==
    /\ ServerIdle
    /\ LET request == [iterations |-> iterations] IN
       IF ~ValidIterations(iterations)
       THEN /\ response' = ValidationError("compare", function_name, request)
            /\ UNCHANGED <<functions, platform>>
       ELSE IF RowsNamed(functions, function_name) = {}
       THEN /\ response' = NotFound("compare", function_name, request)
            /\ UNCHANGED <<functions, platform>>
       ELSE compare_runtimes(FirstNamed(functions, function_name), iterations)

\* The requests the clients send: records under two names, two programs and
\* two timeouts; the runtime of an execute request is one of the two of the
\* platform or another word.
ApiNames == {"hello", "rb"}
Failing == [exit_code |-> 2, terminates |-> TRUE, stdout |-> "", stderr |-> "Traceback"]
ApiRecords ==
    {[name |-> name, language |-> "python", code |-> variant.code,
      timeout |-> variant.timeout] :
         name \in ApiNames,
         variant \in {[code |-> Hello, timeout |-> 1],
                      [code |-> Failing, timeout |-> 2]}}
RequestRuntimes == Runtimes \cup {"firecracker"}

\* The server with its function store: requests of every endpoint, one at a
\* time, the execute requests with warm_start false and the comparisons of one
\* iteration (so the pool stays empty), with an engine that can be unreachable
\* when an execute request calls its runner and otherwise does what it is
\* asked. A comparison can follow a comparison that has been answered; a
\* request that starts an execution or a comparison is sent while fewer than
\* MaxApiRows executions have been saved.
ApiNext ==
    \/ \E func \in ApiRecords :
          /\ NextId(functions) <= MaxFunctionId
          /\ create_function(func)
    \/ list_functions
    \/ \E name \in ApiNames : get_function(name)
    \/ \E name \in ApiNames, updated \in ApiRecords : update_function(name, updated)
    \/ \E name \in ApiNames : delete_function(name)
    \/ \E name \in ApiNames, runtime \in RequestRuntimes, engine_up \in BOOLEAN :
          /\ requests < MaxApiRequests
          /\ RowsNamed(functions, name) # {} => Len(execution_metrics) < MaxApiRows
          /\ ExecuteRequest(name, runtime, FALSE, engine_up)
    \/ \E name \in ApiNames, limit \in {0, 1} : get_function_metrics(name, limit)
    \/ \E function_name \in ApiNames \cup {None, ""}, time_range \in {"24h", "2h"} :
          get_system_metrics(function_name, time_range)
    \/ \E function_name \in ApiNames, iterations \in {0, 1} :
          /\ (ValidIterations(iterations) /\ RowsNamed(functions, function_name) # {})
                => Len(execution_metrics) < MaxApiRows
          /\ CompareRequest(function_name, iterations)
    \/ CompareCall(TRUE)
    \/ CompareCollect
    \/ CompareRespond
    \/ CreateContainer(Server, TRUE)
    \/ StageCode(Server, TRUE, TRUE)
    \/ ExecReturn(Server, TRUE)
    \/ EndTime(Server)
    \/ Teardown(Server, TRUE)
    \/ ExceptionHandler(Server, TRUE)
    \/ SaveAndRespond(Server)
    \/ RespondError(Server)

ApiSpec == Init /\ [][ApiNext]_vars

\* ------------------------------------------------ the front end's helpers

\* What a call of requests.get / post / put / delete comes to: an exception
\* of the transport, or a response with its status code and its body, which
\* response.json() parses or fails to parse (a ValueError).
HttpRaised(exc) ==
    [raised |-> TRUE, exc |-> exc, status_code |-> 0, decodable |-> FALSE,
     json |-> Null]
HttpResponse(status_code, decodable, json) ==
    [raised |-> FALSE, exc |-> None, status_code |-> status_code,
     decodable |-> decodable, json |-> json]

\* JSON values as Python has them: a list, an object.
JsonList(items) == [list |-> items]
JsonObject(fields) == [object |-> fields]
EmptyList == JsonList(<<>>)

app_get_functionsMutant(http) ==
    IF http.raised \/ ~http.decodable THEN EmptyList ELSE http.json
\* app.py 33-43: the parsed body of a 200 response; [] for another status and
\* for any exception, that of response.json() included.
app_get_functions(http) ==
    IF http.raised THEN EmptyList
    ELSE IF http.status_code = 200
    THEN IF http.decodable THEN http.json ELSE EmptyList
    ELSE EmptyList

\* app.py 45-66: True for a 200 response, False for another status and for
\* any exception.
app_create_function(http) ==
    IF http.raised THEN FALSE ELSE http.status_code = 200

\* app.py 68-89
app_update_function(http) ==
    IF http.raised THEN FALSE ELSE http.status_code = 200

\* app.py 91-102
app_delete_function(http) ==
    IF http.raised THEN FALSE ELSE http.status_code = 200

\* app.py 104-123: the parsed body of a 200 response; None for another status
\* and for any exception, that of response.json() included.
app_execute_function(http) ==
    IF http.raised THEN Null
    ELSE IF http.status_code = 200
    THEN IF http.decodable THEN Some(http.json) ELSE Null
    ELSE Null

\* app.py 125-135
app_get_function_metrics(http) ==
    IF http.raised THEN Null
    ELSE IF http.status_code = 200
    THEN IF http.decodable THEN Some(http.json) ELSE Null
    ELSE Null

\* app.py 137-151: GET /runtime/compare; the parsed body of a 200 response,
\* None for another status and for any exception.
app_compare_runtimes(http) ==
    IF http.raised THEN Null
    ELSE IF http.status_code = 200
    THEN IF http.decodable THEN Some(http.json) ELSE Null
    ELSE Null

\* The variables of the server, which the front end's helpers do not write.
server == <<now, container_pools, pool_lock, containers, ex, adder, sweep,
            execution_metrics, requests, comparison, functions, response,
            pool_keys>>

\* The front end calls a helper, whose request comes to http, and has its
\* return value.
GetFunctions(http) ==
    /\ frontend' = [helper |-> "get_functions", http |-> http,
                    returned |-> app_get_functions(http),
                    cache |-> frontend.cache]
    /\ UNCHANGED server

CreateFunction(http) ==
    /\ frontend' = [helper |-> "create_function", http |-> http,
                    returned |-> app_create_function(http),
                    cache |-> frontend.cache]
    /\ UNCHANGED server

UpdateFunction(http) ==
    /\ frontend' = [helper |-> "update_function", http |-> http,
                    returned |-> app_update_function(http),
                    cache |-> frontend.cache]
    /\ UNCHANGED server

DeleteFunction(http) ==
    /\ frontend' = [helper |-> "delete_function", http |-> http,
                    returned |-> app_delete_function(http),
                    cache |-> frontend.cache]
    /\ UNCHANGED server

ExecuteFunction(http) ==
    /\ frontend' = [helper |-> "execute_function", http |-> http,
                    returned |-> app_execute_function(http),
                    cache |-> frontend.cache]
    /\ UNCHANGED server

GetFunctionMetrics(http) ==
    /\ frontend' = [helper |-> "get_function_metrics", http |-> http,
                    returned |-> app_get_function_metrics(http),
                    cache |-> frontend.cache]
    /\ UNCHANGED server

CompareRuntimes(http) ==
    /\ frontend' = [helper |-> "compare_runtimes", http |-> http,
                    returned |-> app_compare_runtimes(http),
                    cache |-> frontend.cache]
    /\ UNCHANGED server

\* dashboard.py 32-42: GET /metrics/aggregated?days=N; the parsed body of a
\* 200 response, None for another status and for any exception.
dashboard_get_system_metrics(http) ==
    IF http.raised THEN Null
    ELSE IF http.status_code = 200
    THEN IF http.decodable THEN Some(http.json) ELSE Null
    ELSE Null

\* dashboard.py 31: st.cache_data(ttl=300) keeps the helper's return value by
\* its argument; an entry younger than the ttl answers the call, and no
\* request is made.
Cached(cache, days, t) ==
    /\ days \in DOMAIN cache
    /\ t - cache[days].at < Seconds(cache_ttl_seconds)
CachePut(cache, days, returned, t) ==
    [d \in DOMAIN cache \cup {days} |->
        IF d = days THEN [returned |-> returned, at |-> t] ELSE cache[d]]

\* dashboard.py 45: the page calls the helper with the time range chosen.
GetSystemMetrics(days, http) ==
    /\ frontend' =
          IF Cached(frontend.cache, days, now)
          THEN [helper |-> "get_system_metrics", http |-> None,
                returned |-> frontend.cache[days].returned,
                cache |-> frontend.cache]
          ELSE [helper |-> "get_system_metrics", http |-> http,
                returned |-> dashboard_get_system_metrics(http),
                cache |-> CachePut(frontend.cache, days,
                                   dashboard_get_system_metrics(http), now)]
    /\ UNCHANGED server

\* The outcomes of a request: two exceptions of the transport, and responses
\* of five status codes whose body is a JSON list, a JSON object or no JSON.
StatusCodes == {200, 201, 404, 422, 500}
JsonBodies ==
    {EmptyList, JsonList(<<HelloFunction>>),
     JsonObject([message |-> "Function saved"])}
HttpOutcomes ==
    {HttpRaised(exc) : exc \in {"ConnectionError", "Timeout"}}
    \cup {HttpResponse(status_code, TRUE, json) :
             status_code \in StatusCodes, json \in JsonBodies}
    \cup {HttpResponse(status_code, FALSE, Null) : status_code \in StatusCodes}

\* dashboard.py 23-28: the time ranges the page offers (two of the five).
DashboardDays == {7, 30}

\* The front end calls its helpers, with every outcome of their requests,
\* while the clock can jump past the ttl of the dashboard's cache.
FrontNext ==
    \E http \in HttpOutcomes :
        \/ GetFunctions(http)
        \/ CreateFunction(http)
        \/ UpdateFunction(http)
        \/ DeleteFunction(http)
        \/ ExecuteFunction(http)
        \/ GetFunctionMetrics(http)
        \/ CompareRuntimes(http)
        \/ \E days \in DashboardDays : GetSystemMetrics(days, http)
        \/ (now + ExpiryTick \in CoarseClock /\ Tick(ExpiryTick))

FrontSpec == Init /\ [][FrontNext]_vars

\* ------------------------------------------------------------ properties

\* The runner's call on thread e has returned its result.
Returned(e) == ex[e].pc = "returned"

\* The call on thread e is for a language that is none of the registry's
\* (python, javascript, js).
Unsupported(e) ==
    ex[e].pc # "idle" /\ ~LowerIsPython(ex[e].language) /\ ~LowerIsJavascript(ex[e].language)

\* C1: once an execution has returned its result, whatever its status, the
\* container it used has been stopped (stated for the executions in which no
\* engine or file system call failed, so that a stop the engine refused is
\* not what the property is judged on).
C1_ContainerDestroyed ==
    \A e \in Execs :
        (Returned(e) /\ ex[e].container # NoContainer /\ ex[e].failed_at = None)
            => containers[ex[e].container].status = "stopped"

\* C2: once the function's timeout has expired the executor need not wait for
\* the program any longer: whenever it is still waiting on the exec after more
\* than the timeout, the exec can return.
C2_ExecBoundedByTimeout ==
    \A e \in Execs :
        (ex[e].pc = "exec" /\ now - ex[e].exec_start_time > Seconds(ex[e].timeout))
            => ENABLED ExecReturn(e, TRUE)

\* C3: a returned result whose exec phase took longer than the function's
\* timeout does not have the status success, whatever the exit code.
C3_OverTimeNeverSuccess ==
    \A e \in Execs :
        (Returned(e) /\ ex[e].execution_time > Seconds(ex[e].timeout))
            => ex[e].result.status # "success"

\* An execution that ran past its timeout, exited with 0 and was returned as
\* a timeout.
C3_Witness ==
    \E e \in Execs :
        /\ Returned(e)
        /\ ex[e].execution_time > Seconds(ex[e].timeout)
        /\ ex[e].exit_code = 0
        /\ ex[e].result.status = "timeout"

\* C4: a returned result has the status timeout if and only if its recorded
\* execution_time_ms is strictly greater than timeout * 1000.
C4_TimeoutIffOverMs ==
    \A e \in Execs :
        Returned(e) =>
            (ex[e].result.status = "timeout"
                <=> ex[e].result.metrics.execution_time_ms
                        > ex[e].timeout * MsPerSecond)

\* C5: the row save_execution_metrics appends for an execution has cold_start
\* true if and only if the execution did not take its container from the pool.
C5_ColdStartIffNotPooled ==
    [][\A e \in Execs :
          (Returned(e) /\ Len(execution_metrics') = Len(execution_metrics) + 1)
              => (execution_metrics'[Len(execution_metrics')].cold_start
                      <=> ~ex[e].from_pool)]_vars

\* C6: in every returned result, on the normal and on the exception path,
\* the three times are non-negative, the total time is at least the
\* initialization time and at least the execution time, and
\* initialization + execution is at most total + 5.
C6_TimesConsistent ==
    \A e \in Execs :
        Returned(e) =>
            LET m == ex[e].result.metrics IN
            /\ m.initialization_time_ms >= 0
            /\ m.execution_time_ms >= 0
            /\ m.total_time_ms >= 0
            /\ m.total_time_ms >= m.initialization_time_ms
            /\ m.total_time_ms >= m.execution_time_ms
            /\ m.initialization_time_ms + m.execution_time_ms
                   <= m.total_time_ms + 5

\* A result of the exception path (the stop after the exec raised) with a
\* positive initialization time and a positive execution time whose sum is
\* below the total time.
C6_Witness ==
    \E e \in Execs :
        /\ Returned(e)
        /\ ex[e].failed_at = "stop"
        /\ ex[e].result.metrics.initialization_time_ms > 0
        /\ ex[e].result.metrics.execution_time_ms > 0
        /\ ex[e].result.metrics.initialization_time_ms
               + ex[e].result.metrics.execution_time_ms
             < ex[e].result.metrics.total_time_ms

\* C7: in every reachable state, under any interleaving of executions,
\* replenishment threads, initial fills and sweeps, every pool bucket holds at
\* most max_pool_size idle containers.
C7_PoolBounded ==
    \A pool_key \in DOMAIN container_pools :
        Len(container_pools[pool_key].containers) <= max_pool_size

\* A full bucket, and a thread in add_container_to_pool that found it full and
\* is about to stop the container it created.
C7_Witness ==
    /\ \E pool_key \in DOMAIN container_pools :
          Len(container_pools[pool_key].containers) = max_pool_size
    /\ \E t \in Adders : adder[t].pc = "stop"

\* C8: executing a function whose language is not in the registry returns the
\* status error with a message naming the language and with
\* initialization_time_ms = execution_time_ms = 0, and while that call is in
\* progress no container and no pool bucket is created.
C8_UnsupportedLanguage ==
    /\ [](\A e \in Execs :
            (Unsupported(e) /\ Returned(e)) =>
                /\ ex[e].result.status = "error"
                /\ ex[e].result.stderr =
                      "Error executing function: " \o UnsupportedMessage(ex[e].language)
                /\ ex[e].result.metrics.error = UnsupportedMessage(ex[e].language)
                /\ ex[e].result.metrics.initialization_time_ms = 0
                /\ ex[e].result.metrics.execution_time_ms = 0)
    /\ [][(\E e \in Execs : Unsupported(e))
            => (containers' = containers /\ container_pools' = container_pools)]_vars

\* A warm execution of a ruby function that has returned.
C8_Witness ==
    \E e \in Execs :
        /\ Unsupported(e)
        /\ Returned(e)
        /\ ex[e].warm
        /\ ex[e].language = "ruby"

\* C9: a failure raised once the execution has started (the image, the
\* engine client of the initial fill, the container's creation, the write of
\* the code, the exec, the removal of the file, the stop) is returned as a result with status error, exit code -1 and
\* the failure's message in the error field of a populated metrics block; the
\* only exception that leaves a runner is that of the engine client made
\* before the execution starts.
C9_FailuresBecomeResults ==
    \A e \in Execs :
        /\ ex[e].pc = "raised" => ex[e].failed_at = "from_env"
        /\ ex[e].pc = "except" => ex[e].failed_at \notin {None, "from_env"}
        /\ (Returned(e) /\ ex[e].failed_at # None) =>
              /\ ex[e].result.status = "error"
              /\ ex[e].result.exit_code = -1
              /\ ex[e].exc # None
              /\ ex[e].result.metrics.error = ex[e].exc
              /\ {"runtime", "language", "initialization_time_ms",
                  "execution_time_ms", "total_time_ms"}
                     \subseteq DOMAIN ex[e].result.metrics

\* A result returned after the exec of the code raised.
C9_Witness ==
    \E e \in Execs :
        /\ Returned(e)
        /\ ex[e].failed_at = "exec"
        /\ ex[e].result.metrics.error = EngineError("exec")

\* The status, exit code and error tag of a result are those of a timeout, of
\* a success, or of an exec that ended with the exit code n # 0.
StatusIsKnown(r) == r.status \in {"success", "error", "timeout"}
TimeoutShape(r) ==
    r.status = "timeout" => (r.exit_code = -1 /\ r.metrics.error = "timeout")
SuccessShape(r) ==
    r.status = "success" => (r.exit_code = 0 /\ r.metrics.error = None)
ExitCodeShape(r, n) ==
    r.exit_code = n /\ r.metrics.error = "exit_code_" \o ToString(n)

\* C10 as stated: every returned result is classified consistently, and a
\* result with status error whose exec completed with exit code n # 0 has
\* exit_code = n and the error tag exit_code_n.
C10_Original ==
    \A e \in Execs :
        Returned(e) =>
            /\ StatusIsKnown(ex[e].result)
            /\ TimeoutShape(ex[e].result)
            /\ SuccessShape(ex[e].result)
            /\ (ex[e].result.status = "error" /\ ex[e].exit_code # 0)
                  => ExitCodeShape(ex[e].result, ex[e].exit_code)
            /\ ex[e].failed_at # None => ex[e].result.exit_code = -1

\* C10: every returned result is classified consistently: a timeout has exit
\* code -1 and the tag timeout; a success has exit code 0 and no tag; an error
\* with no failure raised has the exit code n # 0 of its exec and the tag
\* exit_code_n; a result of a raised failure has exit code -1, also when the
\* exec had completed with an exit code n # 0 before the failure.
C10_Classification ==
    \A e \in Execs :
        Returned(e) =>
            /\ StatusIsKnown(ex[e].result)
            /\ TimeoutShape(ex[e].result)
            /\ SuccessShape(ex[e].result)
            /\ (ex[e].result.status = "error" /\ ex[e].failed_at = None)
                  => (ex[e].exit_code # 0
                      /\ ExitCodeShape(ex[e].result, ex[e].exit_code))
            /\ ex[e].failed_at # None =>
                  (ex[e].result.status = "error" /\ ex[e].result.exit_code = -1)

\* An exec that ended with exit code 2 within the timeout and was returned
\* as an error with that exit code.
C10_Witness ==
    \E e \in Execs :
        /\ Returned(e)
        /\ ex[e].failed_at = None
        /\ ex[e].exit_code = 2
        /\ ex[e].result.status = "error"
        /\ ex[e].result.exit_code = 2

\* C11: an execution on the gvisor runtime never touches the warm pool and
\* always runs in a container it has created: no step of the execution
\* changes a bucket, a last_accessed time or a replenishment thread, the
\* container it takes did not exist before, and that container runs under
\* runsc and was never in a bucket.
C11_GvisorLeavesPool ==
    /\ [](\A e \in Execs :
            (ex[e].runtime = "gvisor" /\ ex[e].container # NoContainer) =>
                /\ ~ex[e].from_pool
                /\ containers[ex[e].container].runtime = "runsc"
                /\ \A pool_key \in DOMAIN container_pools :
                      \A i \in DOMAIN container_pools[pool_key].containers :
                          container_pools[pool_key].containers[i].container
                              # ex[e].container)
    /\ [][\A e \in Execs :
            (ex'[e] # ex[e] /\ ex'[e].runtime = "gvisor") =>
                /\ container_pools' = container_pools
                /\ adder' = adder
                /\ (ex'[e].container # ex[e].container =>
                        /\ ex[e].container = NoContainer
                        /\ ex'[e].container \notin DOMAIN containers
                        /\ ex'[e].container \in DOMAIN containers')]_vars

\* A gvisor execution that has returned after running in its own container
\* while the python bucket held its two idle containers.
C11_Witness ==
    \E e \in Execs :
        /\ Returned(e)
        /\ ex[e].runtime = "gvisor"
        /\ ex[e].language = "python"
        /\ ex[e].container # NoContainer
        /\ ex[e].failed_at = None
        /\ container_pools = WarmPools

\* C12: a bucket that has received no checkout for longer than the expiry has
\* been removed, with its idle containers, when the next sweep ends. Stated for
\* the runs in which no execution has taken a container from the pool: there a
\* bucket that holds a container created more than the expiry before the
\* sweep read the clock has had no checkout for longer than the expiry, so
\* none such is left when the sweep ends.
C12_IdleBucketSwept ==
    [][(sweep.pc = "stop" /\ sweep'.pc = "sleep"
            /\ \A e \in Execs : ~ex[e].from_pool)
        => \A pool_key \in DOMAIN container_pools' :
              \A i \in DOMAIN container_pools'[pool_key].containers :
                  sweep.current_time
                      - container_pools'[pool_key].containers[i].created_at
                    <= Seconds(pool_expiry_seconds)]_vars

\* C13: save_execution_metrics appends exactly one row, carrying the result's
\* status, runtime, language and three timings (or the default of each that
\* the result lacks), when the result has a metrics block, and leaves the
\* store as it is when the result has none; the rows already stored stay as
\* they are, in their places.
C13_SaveAppendsOneRow ==
    /\ [](\A function_name \in StoreNames, result \in StoreResults :
            LET rows == execution_metrics
                after == save_execution_metrics(rows, now, function_name, result)
                row == after[Len(after)]
            IN IF "metrics" \notin DOMAIN result THEN after = rows
               ELSE /\ Len(after) = Len(rows) + 1
                    /\ SubSeq(after, 1, Len(rows)) = rows
                    /\ row.function_name = function_name
                    /\ row.status = Get(result, "status", "unknown")
                    /\ row.runtime = Get(result.metrics, "runtime", "docker")
                    /\ row.language = Get(result.metrics, "language", "unknown")
                    /\ row.initialization_time_ms =
                          Get(result.metrics, "initialization_time_ms", 0)
                    /\ row.execution_time_ms =
                          Get(result.metrics, "execution_time_ms", 0)
                    /\ row.total_time_ms = Get(result.metrics, "total_time_ms", 0))
    /\ [][requests' = requests + 1 =>
            \/ execution_metrics' = execution_metrics
            \/ /\ Len(execution_metrics') = Len(execution_metrics) + 1
               /\ SubSeq(execution_metrics', 1, Len(execution_metrics))
                     = execution_metrics]_vars

\* Three calls have been made: one appended the row of a timeout, one was
\* given a result without a metrics block and appended nothing, and one
\* appended a row after that.
C13_Witness ==
    /\ requests = 3
    /\ Len(execution_metrics) = 2
    /\ execution_metrics[1].status = "timeout"
    /\ execution_metrics[1].execution_time_ms = 30
    /\ execution_metrics[2].status = "success"

\* C14: get_metrics_for_function(name, limit) returns only rows of that
\* function, each once, at most limit of them and as many as there are up to
\* limit, newest first, and no row of the function that it leaves out is newer
\* than one it returns.
C14_MostRecentRows ==
    \A function_name \in StoreNames, limit \in Limits :
        \A result \in get_metrics_for_function(execution_metrics, function_name, limit) :
            LET of_function == {i \in 1..Len(execution_metrics) :
                                   execution_metrics[i].function_name = function_name}
                returned == {result[i].id : i \in 1..Len(result)}
            IN /\ \A i \in 1..Len(result) :
                      /\ result[i].function_name = function_name
                      /\ result[i].id \in of_function
                      /\ execution_metrics[result[i].id] = result[i]
               /\ Cardinality(returned) = Len(result)
               /\ Len(result) <= limit
               /\ Len(result) = IF Cardinality(of_function) < limit
                                THEN Cardinality(of_function) ELSE limit
               /\ \A i, j \in 1..Len(result) :
                      i < j => result[i].timestamp >= result[j].timestamp
               /\ \A k \in of_function \ returned : \A i \in 1..Len(result) :
                      execution_metrics[k].timestamp <= result[i].timestamp

\* The store holds two rows of one function with different timestamps and a
\* row of the other function, and the query for the first function's most
\* recent row leaves the older one out.
C14_Witness ==
    /\ Len(execution_metrics) = 3
    /\ execution_metrics[1].function_name = "hello"
    /\ execution_metrics[2].function_name = "rb"
    /\ execution_metrics[3].function_name = "hello"
    /\ execution_metrics[1].timestamp < execution_metrics[3].timestamp
    /\ get_metrics_for_function(execution_metrics, "hello", 1)
           = {<<execution_metrics[3]>>}

\* The rows of the store that a function filter and a time range let through
\* at clock reading t.
Matching(function_name, time_range) ==
    {i \in 1..Len(execution_metrics) :
        /\ (Given(function_name)
               => execution_metrics[i].function_name = function_name)
        /\ InRange(execution_metrics[i].timestamp, now, time_range)}

\* C15: get_aggregated_metrics returns the zero record (count 0, every average
\* and rate 0) when no row matches the filter and the window; when exactly
\* one row matches, count is 1, the two averages are that row's execution and
\* total time, and p95, p99 and stdev are None.
C15_EmptyAndSingleWindow ==
    \A function_name \in FunctionFilters, time_range \in TimeRanges :
        LET matching == Matching(function_name, time_range)
            aggregated == get_aggregated_metrics(execution_metrics, now,
                                                 function_name, time_range)
        IN /\ matching = {} =>
                /\ aggregated.count = 0
                /\ aggregated.avg_execution_time_ms = Zero
                /\ aggregated.avg_total_time_ms = Zero
                /\ aggregated.success_rate = Zero
                /\ aggregated.error_rate = Zero
                /\ aggregated.timeout_rate = Zero
                /\ aggregated.cold_start_percentage = Zero
           /\ Cardinality(matching) = 1 =>
                LET row == execution_metrics[CHOOSE i \in matching : TRUE] IN
                /\ aggregated.count = 1
                /\ aggregated.avg_execution_time_ms = Ratio(row.execution_time_ms, 1)
                /\ aggregated.avg_total_time_ms = Ratio(row.total_time_ms, 1)
                /\ aggregated.p95_execution_time_ms = Null
                /\ aggregated.p99_execution_time_ms = Null
                /\ aggregated.stdev_execution_time_ms = Null

\* Two rows of one function are stored, the first more than an hour ago: the
\* last hour holds exactly one row of the function and none of the other.
C15_Witness ==
    /\ Len(execution_metrics) = 2
    /\ Matching("hello", "1h") = {2}
    /\ Matching("hello", "24h") = {1, 2}
    /\ Matching("rb", "1h") = {}
    /\ execution_metrics[2].execution_time_ms = 20

\* The rates as the code returns them (metrics.py 141-143: a count divided by
\* total_count, two ints, gives the float nearest to the quotient), and their
\* sum as Python adds them, from the left.
RateSum(aggregated) ==
    FloatAdd(FloatAdd(TrueDiv(aggregated.success_rate.num, aggregated.success_rate.den),
                      TrueDiv(aggregated.error_rate.num, aggregated.error_rate.den)),
             TrueDiv(aggregated.timeout_rate.num, aggregated.timeout_rate.den))

\* The rows among the matching ones that have the status.
WithStatus(matching, status) ==
    {i \in matching : execution_metrics[i].status = status}

\* Every matching row has one of the three statuses that are counted:
\* success_count + error_count + timeout_count = count.
CountsPartition(matching, aggregated) ==
    /\ Cardinality(WithStatus(matching, "success"))
         + Cardinality(WithStatus(matching, "error"))
         + Cardinality(WithStatus(matching, "timeout")) = aggregated.count
    /\ RatioAdd(RatioAdd(aggregated.success_rate, aggregated.error_rate),
                aggregated.timeout_rate) = Ratio(1, 1)

\* C16, as the specification states it: for every aggregation over a non-empty
\* set of rows that save_execution_metrics has stored, success_rate +
\* error_rate + timeout_rate = 1, equivalently success_count + error_count +
\* timeout_count = count.
C16_RatesSumToOne ==
    \A function_name \in FunctionFilters, time_range \in TimeRanges :
        LET aggregated == get_aggregated_metrics(execution_metrics, now,
                                                 function_name, time_range)
        IN aggregated.count > 0 =>
              /\ CountsPartition(Matching(function_name, time_range), aggregated)
              /\ RateSum(aggregated) = FloatOne

\* C16, corrected: for every aggregation over a non-empty set of rows that
\* save_execution_metrics has stored, success_count + error_count +
\* timeout_count = count, and the sum of the three rates, which are floats, is
\* 1.0 or one of the two floats next to it.
C16_RatesSumWithinRounding ==
    \A function_name \in FunctionFilters, time_range \in TimeRanges :
        LET aggregated == get_aggregated_metrics(execution_metrics, now,
                                                 function_name, time_range)
        IN aggregated.count > 0 =>
              /\ CountsPartition(Matching(function_name, time_range), aggregated)
              /\ RateSum(aggregated) \in {FloatBelowOne, FloatOne, FloatAboveOne}

\* Six rows of one function are stored, one success, four errors and one
\* timeout: the counts add up to 6 and the rates 1/6, 4/6 and 1/6 add up to
\* 0.9999999999999999.
C16_Witness ==
    LET matching == Matching("hello", "24h")
        aggregated == get_aggregated_metrics(execution_metrics, now, "hello", "24h")
    IN /\ aggregated.count = 6
       /\ Cardinality(WithStatus(matching, "success")) = 1
       /\ Cardinality(WithStatus(matching, "error")) = 4
       /\ Cardinality(WithStatus(matching, "timeout")) = 1
       /\ RateSum(aggregated) = FloatBelowOne

\* The compare request has run all its iterations (it was not ended by an
\* exception of a runner).
AllIterationsRun ==
    /\ comparison.pc \in {"stats", "done"}
    /\ Len(comparison.docker_results) = comparison.iterations
    /\ Len(comparison.gvisor_results) = comparison.iterations

\* The stored row k is the row of the result r.
RowOf(k, r) ==
    /\ k \in DOMAIN execution_metrics
    /\ execution_metrics[k].function_name = comparison.func.name
    /\ execution_metrics[k].runtime = r.metrics.runtime
    /\ execution_metrics[k].status = r.status
    /\ execution_metrics[k].total_time_ms = r.metrics.total_time_ms

\* C17: compare_runtimes runs its docker iterations first, the first with
\* warm=False and the later ones with warm=True, then its gvisor iterations,
\* never more than `iterations` of either; each run's row is stored before
\* the next run starts, in the order of the runs; a comparison that reaches
\* its statistics has made exactly `iterations` runs on each runtime and
\* stored 2 * iterations rows.
C17_CompareOrder ==
    LET docker_results == comparison.docker_results
        gvisor_results == comparison.gvisor_results
        running == ex[Server].pc \notin {"idle", "raised"}
    IN /\ Len(docker_results) <= comparison.iterations
       /\ Len(gvisor_results) <= comparison.iterations
       /\ (gvisor_results # <<>> \/ comparison.pc \in {"gvisor", "stats"})
              => Len(docker_results) = comparison.iterations
       /\ comparison.pc = "stats" => Len(gvisor_results) = comparison.iterations
       /\ \A k \in DOMAIN docker_results :
              /\ docker_results[k].metrics.runtime = "docker"
              /\ docker_results[k].metrics.warm_start = (k > 1)
              /\ RowOf(k, docker_results[k])
       /\ \A k \in DOMAIN gvisor_results :
              /\ gvisor_results[k].metrics.runtime = "gvisor"
              /\ RowOf(Len(docker_results) + k, gvisor_results[k])
       /\ Len(execution_metrics) = Len(docker_results) + Len(gvisor_results)
       /\ (running /\ comparison.pc = "docker") =>
              /\ ex[Server].runtime = "docker"
              /\ ex[Server].warm = (Len(docker_results) > 0)
       /\ (running /\ comparison.pc = "gvisor") => ex[Server].runtime = "gvisor"
       /\ AllIterationsRun =>
              Len(execution_metrics) = 2 * comparison.iterations

\* A comparison of two iterations has answered with its comparison object.
C17_Witness ==
    /\ comparison.pc = "done"
    /\ comparison.response.status_code = 200
    /\ comparison.iterations = 2
    /\ Len(execution_metrics) = 4
    /\ comparison.docker_results[2].metrics.warm_start

\* The sum of the total times of a runtime's results (the mean times the
\* number of iterations, which is the same for both runtimes).
TotalTimeSum(results) == Sum(MetricsOf(results, "total_time_ms"))

\* C18: the recommendation of a comparison object is docker when the docker
\* mean total time is strictly lower than gvisor's, gvisor when gvisor's is
\* strictly lower, and one of the two in any case.
C18_Recommendation ==
    (comparison.pc = "done" /\ comparison.response.status_code = 200) =>
        LET docker_total == TotalTimeSum(comparison.docker_results)
            gvisor_total == TotalTimeSum(comparison.gvisor_results)
            recommendation == comparison.response.recommendation
        IN /\ recommendation \in {"docker", "gvisor"}
           /\ docker_total < gvisor_total => recommendation = "docker"
           /\ gvisor_total < docker_total => recommendation = "gvisor"

\* A comparison object that recommends docker, whose mean total time is the
\* lower one.
C18_Witness ==
    /\ comparison.pc = "done"
    /\ comparison.response.status_code = 200
    /\ comparison.response.recommendation = "docker"
    /\ TotalTimeSum(comparison.docker_results)
          < TotalTimeSum(comparison.gvisor_results)

\* C19: when every docker iteration of a comparison has failed and a docker
\* mean is 0, the comparison still answers with its comparison object.
C19_ZeroMeanIsAnswered ==
    (/\ comparison.pc = "done"
     /\ AllIterationsRun
     /\ \A k \in DOMAIN comparison.docker_results :
           comparison.docker_results[k].status # "success"
     /\ Sum(MetricsOf(comparison.docker_results, "initialization_time_ms")) = 0)
        => comparison.response.status_code = 200

\* C20: an iteration that ends with the status error or timeout is kept as a
\* data point and does not end the comparison: its result is in the list of
\* its runtime and its row is stored, the loop goes on to the next iteration,
\* and the statistics of each runtime count it: the mean total time is the sum
\* over all iterations divided by iterations, and success_rate is the number
\* of successes divided by iterations, between 0 and 1.
C20_FailuresAreDataPoints ==
    LET Failed(r) == r.status \in {"error", "timeout"}
        IsSuccess(r) == r.status = "success"
        StatsCount(results) ==
            LET stats == RuntimeStats(results, comparison.iterations) IN
            /\ stats.success_rate
                  = Ratio(CountIf(results, IsSuccess), comparison.iterations)
            /\ stats.success_rate.num >= 0
            /\ stats.success_rate.num <= stats.success_rate.den
            /\ stats.avg_total_time_ms
                  = Ratio(TotalTimeSum(results), comparison.iterations)
    IN /\ (ex[Server].pc = "returned" /\ Failed(ex[Server].result)
              /\ comparison.pc \in {"docker", "gvisor"})
            => ENABLED CompareCollect
       /\ (comparison.pc \in {"docker", "gvisor"} /\ ex[Server].pc = "idle")
            => ENABLED CompareCall(TRUE)
       /\ \A k \in DOMAIN comparison.docker_results :
             Failed(comparison.docker_results[k])
                => RowOf(k, comparison.docker_results[k])
       /\ \A k \in DOMAIN comparison.gvisor_results :
             Failed(comparison.gvisor_results[k])
                => RowOf(Len(comparison.docker_results) + k,
                         comparison.gvisor_results[k])
       /\ AllIterationsRun =>
             /\ StatsCount(comparison.docker_results)
             /\ StatsCount(comparison.gvisor_results)

\* A comparison of two iterations whose first docker iteration ended with an
\* error has run every iteration and answered with a comparison object whose
\* docker success_rate is 1/2.
C20_Witness ==
    /\ comparison.pc = "done"
    /\ comparison.iterations = 2
    /\ comparison.response.status_code = 200
    /\ comparison.docker_results[1].status = "error"
    /\ comparison.docker_results[1].metrics.total_time_ms > 0
    /\ Len(comparison.gvisor_results) = 2
    /\ comparison.response.docker.success_rate = Ratio(1, 2)

\* The step is the server's answer to a request (or, with the status code 0,
\* the start of an endpoint that answers later).
Answers(op) == response' # response /\ response'.op = op

\* C21: an execute request whose runtime is neither docker nor gvisor is not
\* executed: its answer is never 200 and never carries a result.
C21_InvalidRuntimeRejected ==
    (/\ response.op = "execute"
     /\ response.request.runtime \notin Runtimes
     /\ response.status_code # 0)
        => /\ response.status_code # 200
           /\ "result" \notin DOMAIN response.body

\* The requests on a name that the endpoints answer with 404 when no function
\* has that name.
NamedRequests == {"get", "update", "delete", "execute", "metrics", "aggregated",
                  "compare"}
\* The answer is not the framework's refusal of a parameter out of its range.
WellFormed(answer) == answer.status_code # 422

\* C22: a delete that answers 200 leaves no function of its name; and while no
\* function has a name, every well-formed get, update, delete, execute,
\* metrics and compare request for that name is answered with 404 and changes
\* nothing: no runner is called, no container is created, no metric row is
\* stored and the table stays as it is.
C22_DeletedIsNotFound ==
    [][/\ (Answers("delete") /\ response'.status_code = 200)
            => RowsNamed(functions', response'.name) = {}
       /\ \A op \in NamedRequests :
            (/\ Answers(op)
             /\ response'.name \in ApiNames
             /\ RowsNamed(functions, response'.name) = {}
             /\ WellFormed(response'))
               => /\ response'.status_code = 404
                  /\ UNCHANGED <<functions, ex, containers, execution_metrics,
                                 comparison, container_pools>>]_vars

\* A compare request for the name of a deleted function has been answered
\* with 404.
C22_Witness ==
    /\ response.op = "compare"
    /\ response.status_code = 404
    /\ RowsNamed(functions, response.name) = {}
    /\ execution_metrics = <<>>
    /\ containers = <<>>

\* The fields of a row that a request body carries.
FieldsOf(row) ==
    [name |-> row.name, language |-> row.language, code |-> row.code,
     timeout |-> row.timeout]

\* C23: an update that answers 200 and keeps the name leaves the row of that
\* name with the language, code and timeout of the request; a get answers with
\* the stored row; an execute request calls its runner with the code, language
\* and timeout of the stored row; an update of a name no function has answers
\* 404 and leaves the table as it is.
C23_UpdateIsRead ==
    [][/\ (/\ Answers("update")
           /\ response'.status_code = 200
           /\ response'.request.name = response'.name)
            => /\ RowsNamed(functions', response'.name) # {}
               /\ FieldsOf(FirstNamed(functions', response'.name))
                     = response'.request
       /\ (Answers("get") /\ response'.status_code = 200)
            => /\ response'.body \in functions
               /\ response'.body.name = response'.name
       /\ (Answers("execute") /\ response'.status_code = 0)
            => \E row \in functions :
                  /\ row.name = response'.name
                  /\ ex'[Server].code = row.code
                  /\ ex'[Server].timeout = row.timeout
                  /\ ex'[Server].language = row.language
       /\ (Answers("update") /\ RowsNamed(functions, response'.name) = {})
            => /\ response'.status_code = 404
               /\ UNCHANGED functions]_vars

\* The function hello, stored with the program Hello and the timeout 1, is
\* being executed with the program and the timeout an update gave it.
C23_Witness ==
    /\ response.op = "execute"
    /\ response.name = "hello"
    /\ ex[Server].pc = "exec"
    /\ ex[Server].code = Failing
    /\ ex[Server].timeout = 2

\* C24: no two rows of the functions table have one name; a create of a name
\* that a function has, and an update that gives a row the name of another
\* row, are answered with an error and leave the table as it is; a create of a
\* name no function has is answered with 200 and leaves a row with the
\* request's fields; a get of a name a function has returns the one row of
\* that name.
C24_NamesAreUnique ==
    [][/\ \A name \in ApiNames :
            /\ Cardinality(RowsNamed(functions, name)) <= 1
            /\ Cardinality(RowsNamed(functions', name)) <= 1
       /\ (Answers("create") /\ RowsNamed(functions, response'.name) # {})
            => /\ response'.status_code >= 400
               /\ UNCHANGED functions
       /\ (/\ Answers("update")
           /\ response'.request.name # response'.name
           /\ RowsNamed(functions, response'.name) # {}
           /\ RowsNamed(functions, response'.request.name) # {})
            => /\ response'.status_code >= 400
               /\ UNCHANGED functions
       /\ (Answers("create") /\ RowsNamed(functions, response'.name) = {})
            => /\ response'.status_code = 200
               /\ \E row \in functions' : FieldsOf(row) = response'.request
       /\ (Answers("get") /\ RowsNamed(functions, response'.name) # {})
            => /\ response'.status_code = 200
               /\ RowsNamed(functions, response'.name) = {response'.body}]_vars

\* A create of a name that a function has was refused, and the table has the
\* two rows it had.
C24_Witness ==
    /\ response.op = "create"
    /\ response.status_code = 500
    /\ RowsNamed(functions, response.name) # {}
    /\ Cardinality(functions) = 2

\* The results of a comparison's runs so far: runs of one function record,
\* whose program gives the same stdout and exit code every time it runs, on
\* both runtimes, cold and warm, in a container the run created or one the
\* pool handed out.
AllResults == comparison.docker_results \o comparison.gvisor_results

\* C25: determinism: any two executions of one function record whose program
\* is deterministic, under any runtime and warm flag and any pool state,
\* return the same stdout and the same classified status.
C25_Original ==
    \A i \in DOMAIN AllResults, j \in DOMAIN AllResults :
        /\ AllResults[i].stdout = AllResults[j].stdout
        /\ AllResults[i].status = AllResults[j].status

\* C26: the helpers of the front end return for every outcome of their
\* request (no exception leaves them): get_functions returns the parsed body
\* of a 200 response and [] for any other status and any exception;
\* create_function returns True exactly for a 200 response; execute_function
\* returns the parsed body of a 200 response and None for any other status
\* and any exception. A 200 response whose body is not JSON makes
\* response.json() raise and is answered like an exception.
C26_HelpersReturnSentinels ==
    LET http == frontend.http
        ok == ~http.raised /\ http.status_code = 200
    IN /\ frontend.helper = "get_functions" =>
            IF ok /\ http.decodable THEN frontend.returned = http.json
            ELSE frontend.returned = EmptyList
       /\ frontend.helper = "create_function" => frontend.returned = ok
       /\ frontend.helper = "execute_function" =>
            IF ok /\ http.decodable THEN frontend.returned = Some(http.json)
            ELSE frontend.returned = Null

\* get_functions has returned [] for a response that is not 200 and whose
\* body is a list of functions.
C26_Witness ==
    /\ frontend.helper = "get_functions"
    /\ ~frontend.http.raised
    /\ frontend.http.status_code = 500
    /\ frontend.http.json = JsonList(<<HelloFunction>>)
    /\ frontend.returned = EmptyList

\* ---------------------------------------------------- the pool's threads

Threads == Adders \cup {Sweeper}

\* The step is a container-engine call made by thread t: containers.run in
\* add_container_to_pool (runner.py 54) or in the runner (runner.py 176),
\* container.stop in add_container_to_pool (runner.py 76) or in the sweep
\* (runner.py 110).
EngineCallBy(t) ==
    \/ /\ t \in Adders
       /\ adder[t].pc \in {"create", "stop"}
       /\ adder'[t] # adder[t]
    \/ /\ t \in Execs
       /\ ex[t].pc = "create"
       /\ ex'[t] # ex[t]
    \/ /\ t = Sweeper
       /\ sweep.pc = "stop"
       /\ sweep.to_stop # <<>>
       /\ sweep' # sweep

\* C27: no container-engine call (create or stop) is made by a thread that
\* holds pool_lock: at every engine call the lock is free of the caller.
C27_NoEngineCallUnderLock ==
    [][\A t \in Threads : EngineCallBy(t) => pool_lock # t]_vars

\* The containers idle in some bucket of the pool.
Pooled(pools) ==
    UNION {{pools[k].containers[i].container : i \in 1..Len(pools[k].containers)} :
              k \in DOMAIN pools}

\* C28: a container created by add_container_to_pool ends up inserted into its
\* bucket's idle list or destroyed: when the thread leaves the insert attempt,
\* the container is idle in a bucket or the thread goes on to stop it, also
\* when a sweep removed the bucket since the container was created.
C28_CreatedIsInsertedOrDestroyed ==
    [][\A t \in Adders :
          (adder[t].pc = "insert" /\ adder'[t].pc # "insert")
          => \/ adder[t].container \in Pooled(container_pools')
             \/ adder'[t].pc = "stop"]_vars

\* The idle lists of all buckets, one after the other.
IdleLists ==
    ContainersOf(container_pools, KeysInOrder(pool_keys, DOMAIN container_pools))

\* The containers checked out by an execution.
CheckedOut == {ex[e].container : e \in {x \in Execs : ex[x].container # NoContainer}}

\* C29: exclusive ownership under concurrency: no container is twice in the
\* idle lists (of one bucket or of two), no idle container is checked out, no
\* container is held by two executions, and the containers the sweep stops
\* are not checked out (a container an execution took from the pool is
\* running).
C29_ExclusiveOwnership ==
    /\ LET idle == IdleLists IN
       \A i, j \in 1..Len(idle) : idle[i] = idle[j] => i = j
    /\ CheckedOut \cap Pooled(container_pools) = {}
    /\ \A e1, e2 \in Execs :
          (ex[e1].container # NoContainer /\ ex[e1].container = ex[e2].container)
          => e1 = e2
    /\ \A i \in 1..Len(sweep.to_stop) : sweep.to_stop[i] \notin CheckedOut
    /\ \A e \in Execs :
          ex[e].from_pool => containers[ex[e].container].status = "running"

\* Two executions hold containers they took from the pool while the sweep,
\* which found the bucket expired, is stopping its idle containers.
C29_Witness ==
    /\ \E e1, e2 \in Execs :
          e1 # e2 /\ ex[e1].from_pool /\ ex[e2].from_pool
    /\ sweep.pc = "stop"
    /\ sweep.to_stop # <<>>
    /\ containers[Head(sweep.to_stop)].status = "running"

\* The returned execution on thread e could not write the source file (the
\* handler ran), or its copy into the container failed unnoticed (the
\* interpreter then found no file, within the timeout, and no later engine
\* call failed).
WriteFailed(e) == Returned(e) /\ ex[e].failed_at = "write"
CopyFailed(e) ==
    /\ Returned(e)
    /\ ex[e].failed_at = None
    /\ ex[e].container # NoContainer
    /\ ~ex[e].staged
    /\ ~TimedOut(ex[e].execution_time, ex[e].timeout)

\* C30: an execution whose code staging failed (the write of the source file
\* or its copy into the container) returns status error and its container
\* has been stopped, for a warm and for a cold docker run and for gvisor. A
\* cold docker run is not judged on the stop its handler asks for, which the
\* engine may refuse.
C30_StagingFailureStops ==
    \A e \in Execs :
        (WriteFailed(e) \/ CopyFailed(e))
            => /\ ex[e].result.status = "error"
               /\ \/ containers[ex[e].container].status = "stopped"
                  \/ (WriteFailed(e) /\ ex[e].runtime = "docker" /\ ~ex[e].warm)

\* The step is a checkout by thread e: get_container_from_pool returns a
\* container.
Checkout(e) == ex[e].pc = "acquire" /\ ex'[e].pc = "init_end"

\* C31: get_container_from_pool hands out the idle containers of a bucket in
\* FIFO order: the container returned was idle in the bucket, none of the
\* bucket's idle containers was inserted before it, it is idle no longer, and
\* the bucket's last_accessed is the time of the checkout.
C31_CheckoutIsFifo ==
    [][\A e \in Execs :
          Checkout(e) =>
            LET pool_key == PoolKey(ex[e].language)
                idle == container_pools[pool_key].containers
            IN /\ \E i \in 1..Len(idle) :
                     /\ idle[i].container = ex'[e].container
                     /\ \A j \in 1..Len(idle) :
                           /\ idle[i].created_at <= idle[j].created_at
                           /\ j < i => idle[j].created_at < idle[i].created_at
               /\ ex'[e].container \notin Pooled(container_pools')
               /\ container_pools'[pool_key].last_accessed = now]_vars

\* A checkout made after the clock has advanced: the execution holds a
\* container of the pool, the bucket is marked accessed at the checkout time,
\* and the containers still idle were all inserted later than the execution
\* began.
C31_Witness ==
    \E e \in Execs :
        LET pool_key == PoolKey(ex[e].language) IN
        /\ ex[e].from_pool
        /\ now > 0
        /\ ex[e].pc = "init_end"
        /\ pool_key \in DOMAIN container_pools
        /\ container_pools[pool_key].last_accessed = now
        /\ container_pools[pool_key].containers # <<>>
        /\ \A i \in 1..Len(container_pools[pool_key].containers) :
              /\ container_pools[pool_key].containers[i].created_at = now
              /\ container_pools[pool_key].containers[i].container > ex[e].container

\* The replenishment threads the step starts for a language.
StartedFor(language) ==
    {r \in Repls : /\ adder[r].pc = "off"
                   /\ adder'[r].pc = "create"
                   /\ adder'[r].language = language}

\* The step is a call of get_container_from_pool by thread e that returns
\* None.
Miss(e) == ex[e].pc = "acquire" /\ ex'[e].pc = "init_pool"

\* C32 as stated: every call of get_container_from_pool, whether it returns a
\* container or None, starts exactly one replenishment thread for its
\* language.
C32_Original ==
    [][\A e \in Execs :
          (Checkout(e) \/ Miss(e))
          => Cardinality(StartedFor(ex[e].language)) = 1]_vars

\* C32, amended: a call of get_container_from_pool that returns a container
\* starts exactly one replenishment thread for its language and returns
\* without waiting for it (the thread has yet to create its container when
\* the caller goes on with the container it was handed); a call that returns
\* None starts no thread.
C32_CheckoutReplenishes ==
    [][\A e \in Execs :
          /\ Checkout(e) =>
               /\ Cardinality(StartedFor(ex[e].language)) = 1
               /\ \A r \in StartedFor(ex[e].language) :
                     adder'[r].container = NoContainer
               /\ containers' = containers
          /\ Miss(e) => StartedFor(ex[e].language) = {}]_vars

\* An execution has been handed a pooled container and goes on with it while
\* the replenishment thread started for it has not created its container.
C32_Witness ==
    \E e \in Execs, r \in Repls :
        /\ ex[e].pc = "init_end"
        /\ ex[e].from_pool
        /\ adder[r].pc = "create"
        /\ adder[r].language = ex[e].language
        /\ Len(containers) = InitialFill + 1

\* A replenishment thread started by a checkout has yet to put its container
\* into the bucket (the checkouts of this specification are all of python
\* containers).
Replenishing == \E r \in Repls : adder[r].pc \in {"create", "insert"}

\* The bucket of the language holds m idle containers.
IdleCount(language, m) ==
    /\ PoolKey(language) \in DOMAIN container_pools
    /\ Len(container_pools[PoolKey(language)].containers) = m

\* The bucket of the language has been removed by a sweep.
Swept(language) == PoolKey(language) \notin DOMAIN container_pools

\* C33: the pool maintains population. A checkout that takes one of the n
\* idle containers of a bucket leaves n - 1 of them and a replenishment thread
\* running; from any state with m idle containers (m below the maximum) and a
\* replenishment thread running, the bucket comes to hold at least m + 1 idle
\* containers, unless it is swept, when the engine creates the containers and
\* the threads are scheduled fairly.
C33_PopulationMaintained ==
    \A m \in 0..(max_pool_size - 1) :
        (IdleCount("python", m) /\ Replenishing)
            ~> (Swept("python") \/ \E k \in (m + 1)..max_pool_size : IdleCount("python", k))

\* A checkout took one of the two idle containers of the initial fill and its
\* replenishment thread has ended: the bucket holds two idle containers
\* again, the later one created after the container that was checked out.
C33_Witness ==
    \E e \in LiveExecs :
        /\ ex[e].from_pool
        /\ \A r \in Repls : adder[r].pc = "off"
        /\ IdleCount("python", InitialFill)
        /\ container_pools["python_pool"].containers[InitialFill].container
               > ex[e].container

\* C34: on a warm-start pool miss the initial fill is launched asynchronously:
\* once the miss is known and the bucket is there, the executor's own
\* container creation does not wait for the fill containers, so it can be
\* made as soon as the engine can create a container.
C34_FillIsAsynchronous ==
    \A e \in Execs :
        (ex[e].warm /\ ex[e].pc \in {"filling", "create"} /\ CanCreate)
            => ENABLED CreateContainer(e, TRUE)

\* The idle container entries of all buckets.
IdleEntries(pools) ==
    UNION {{pools[k].containers[i] : i \in 1..Len(pools[k].containers)} :
              k \in DOMAIN pools}

\* C35: when a sweep ends, no idle container whose own age at the sweep (the
\* sweep's clock reading minus its created_at) exceeds the TTL remains in a
\* bucket, whether or not its bucket was accessed within the TTL.
C35_OldContainersSwept ==
    [][(sweep.pc = "stop" /\ sweep'.pc = "sleep")
          => \A entry \in IdleEntries(container_pools') :
                ~(sweep.current_time - entry.created_at
                      > Seconds(pool_expiry_seconds))]_vars

\* The step answers the request whose run is on thread e: the runner was
\* called (the request reached the executor) and it has returned a result or
\* raised, and the endpoint hands its answer out.
Answered(e) == ex[e].pc \in {"returned", "raised"} /\ ex'[e].pc = "idle"

\* The phase that comes right before each phase of a run: the initialization
\* ends when the code is staged, the exec follows the staging, the teardown
\* follows the exec, the result is returned after the teardown (or by the
\* exception handler, when a phase failed).
PhaseBefore(pc) ==
    CASE pc = "stage" -> {"init_end", "create"}
      [] pc = "init_end" -> {"acquire"}
      [] pc = "exec" -> {"stage"}
      [] pc = "end_time" -> {"exec"}
      [] pc = "teardown" -> {"end_time"}
      [] pc = "returned" -> {"teardown", "except"}
      [] OTHER -> {"idle", "acquire", "init_pool", "filling", "create", "stage",
                   "exec", "teardown", "returned", "raised"}

\* The container the run used, if it got one, has been stopped.
TornDown(run) ==
    run.container # NoContainer => containers[run.container].status = "stopped"

\* C36: the phases of one execute request are strictly ordered: init start,
\* init end, exec start, exec end, teardown of the container, persist of the
\* metric. Each phase is entered from the one before it; the exec began no
\* earlier than the run and ended no later than the row is written, and the
\* initialization ended before the exec began; the metric row is written
\* only after the container has been torn down; every execute request that
\* reached the executor writes exactly one row when it is answered, the rows
\* before it unchanged, and nothing else writes a row.
C36_PhasesOrdered ==
    [][/\ \A e \in Execs :
            /\ ex'[e].pc # ex[e].pc => ex[e].pc \in PhaseBefore(ex'[e].pc)
            /\ Answered(e) => Len(execution_metrics') = Len(execution_metrics) + 1
       /\ execution_metrics' # execution_metrics =>
            /\ Answered(Server)
            /\ Len(execution_metrics') = Len(execution_metrics) + 1
            /\ SubSeq(execution_metrics', 1, Len(execution_metrics)) = execution_metrics
            /\ LET run == ex[Server]
                   row == execution_metrics'[Len(execution_metrics')]
               IN /\ row.timestamp = now
                  /\ row.function_name = run.function_name
                  /\ row.status = run.result.status
                  /\ run.start_time <= now
                  /\ TornDown(run)
                  /\ run.failed_at = None =>
                       /\ run.start_time <= run.exec_start_time
                       /\ run.exec_start_time + run.execution_time <= now
                       /\ row.initialization_time_ms
                              <= Millis(run.exec_start_time - run.start_time)]_vars

\* v is the element at zero-based index k of the ascending order of the
\* execution times of the rows in the set matching: at most k of them are
\* smaller than v and more than k of them are not greater.
AtSortedIndex(matching, k, v) ==
    /\ \E i \in matching : execution_metrics[i].execution_time_ms = v
    /\ Cardinality({i \in matching : execution_metrics[i].execution_time_ms < v}) <= k
    /\ Cardinality({i \in matching : execution_metrics[i].execution_time_ms <= v}) > k

\* floor(n * percent / 100), capped at the last index.
CappedIndex(n, percent) ==
    IF (n * percent) \div 100 < n - 1 THEN (n * percent) \div 100 ELSE n - 1

\* C37: with n >= 2 execution times in the window, the indices the
\* aggregation uses are within 0..n-1, p95 and p99 are the elements at index
\* min(floor(n*0.95), n-1) and min(floor(n*0.99), n-1) of the ascending
\* execution times, and p95 <= p99; for every n up to MaxWindow the two
\* indices are those capped ones, in order.
C37_Percentiles ==
    /\ \A n \in 2..MaxWindow :
          /\ PercentileIndex(n, 95) = CappedIndex(n, 95)
          /\ PercentileIndex(n, 99) = CappedIndex(n, 99)
          /\ PercentileIndex(n, 95) <= PercentileIndex(n, 99)
          /\ PercentileIndex(n, 99) \in 0..(n - 1)
    /\ \A function_name \in FunctionFilters, time_range \in TimeRanges :
        LET matching == Matching(function_name, time_range)
            n == Cardinality(matching)
            aggregated == get_aggregated_metrics(execution_metrics, now,
                                                 function_name, time_range)
        IN n >= 2 =>
             /\ PercentileIndex(n, 95) \in 0..(n - 1)
             /\ PercentileIndex(n, 99) \in 0..(n - 1)
             /\ aggregated.p95_execution_time_ms # Null
             /\ aggregated.p99_execution_time_ms # Null
             /\ AtSortedIndex(matching, CappedIndex(n, 95),
                              aggregated.p95_execution_time_ms[1])
             /\ AtSortedIndex(matching, CappedIndex(n, 99),
                              aggregated.p99_execution_time_ms[1])
             /\ aggregated.p95_execution_time_ms[1]
                    <= aggregated.p99_execution_time_ms[1]

\* Three rows with three different execution times, stored in descending
\* order, are all in the last day's window: p95 and p99 are the largest.
C37_Witness ==
    /\ Len(execution_metrics) = 3
    /\ execution_metrics[1].execution_time_ms > execution_metrics[2].execution_time_ms
    /\ execution_metrics[2].execution_time_ms > execution_metrics[3].execution_time_ms
    /\ Cardinality(Matching(None, "24h")) = 3
    /\ get_aggregated_metrics(execution_metrics, now, None, "24h").p95_execution_time_ms
           = Some(execution_metrics[1].execution_time_ms)

\* C38: the pool does not deadlock. Whoever holds pool_lock is at a step that
\* needs neither the lock nor another pool thread (the sweep's engine calls
\* and its removal of the buckets, an insert's marking of its bucket as
\* accessed), the lock is always released again, and
\* every thread waiting for it (an insert, a checkout, the creation of a
\* bucket, the sweep) gets past its wait, when every engine call returns and
\* the threads are scheduled fairly.
C38_NoDeadlock ==
    /\ [](pool_lock # "free" =>
            \/ pool_lock = Sweeper /\ sweep.pc = "stop"
            \/ pool_lock \in LiveAdders /\ adder[pool_lock].pc = "accessed")
    /\ (pool_lock # "free") ~> (pool_lock = "free")
    /\ \A t \in LiveAdders : (adder[t].pc = "insert") ~> (adder[t].pc # "insert")
    /\ \A e \in LiveExecs :
          /\ (ex[e].pc = "acquire") ~> (ex[e].pc # "acquire")
          /\ (ex[e].pc = "init_pool") ~> (ex[e].pc # "init_pool")
    /\ (sweep.pc = "lock") ~> (sweep.pc = "stop")

\* The cleanup thread holds the lock and has containers to stop while one
\* execution waits to check out and another, in its initial fill, waits to
\* insert a container.
C38_Witness ==
    /\ pool_lock = Sweeper
    /\ sweep.to_stop # <<>>
    /\ \E e \in LiveExecs : ex[e].pc = "acquire"
    /\ \E e \in LiveExecs : ex[e].pc = "filling" /\ adder[e].pc = "insert"

\* C39: a compare request that is answered with an error leaves the metrics
\* store as it was when the request arrived (empty, for the one request of
\* the comparison specification): only a comparison that returns its
\* comparison object has appended rows.
C39_ErrorLeavesStoreUnchanged ==
    (response.op = "compare" /\ response.status_code >= 400)
        => execution_metrics = <<>>

====
